---- MODULE Spec2Model ----
(***************************************************************************)
(* Camply: the client-side authentication lifecycle.                       *)
(*   - RateLimiter (lib/rateLimiter.ts): the attempt throttle              *)
(*   - authService (lib/authService.ts): validation, login, signup, ...    *)
(*   - AuthProvider (context/AuthContext.tsx): the auth orchestrator       *)
(* Time is Date.now() in milliseconds; the clock advances in steps of      *)
(* TickMs.  Strings the code inspects character by character (emails,      *)
(* passwords, names) are sequences of one-character strings.               *)
(***************************************************************************)
EXTENDS Integers, Sequences, FiniteSets, TLC

VARIABLES
    store,       \* RateLimiter.store: identifier -> entry (domain = keys present)
    config,      \* RateLimiter.config
    now,         \* Date.now()
    nextSweep,   \* the instant the cleanup interval is next due
    lockouts,    \* history: per identifier, the expiry of the lockout imposed on it
                 \* and not yet over nor lifted by reset/resetAll (0: none)
    last,        \* what the call made in the last step returned or threw; None otherwise
    variant,     \* which of the two AuthProvider implementations is mounted
    user,        \* AuthProvider state: user
    session,     \* AuthProvider state: session
    loading,     \* AuthProvider state: loading
    error,       \* AuthProvider state: error
    pending,     \* the identity-provider calls in flight, one per suspended operation
    solo,        \* history: User/Session at the start of the operation in flight, while
                 \* nothing else has run since it started
    mounted,     \* the AuthProvider is mounted (its effects ran, their cleanup did not)
    epoch,       \* how many times the mount effect has run; a closure's `mounted`
                 \* flag is true while the provider is mounted in the closure's epoch
    subs,        \* the epochs whose onAuthStateChange subscription is active
    page,        \* the page that is open: its route and its component state
    nav,         \* history: the router.push calls made so far, in order
    profiles,    \* the users table: user id -> profile row (domain = rows present)
    onboarded,   \* history: user id -> the data of its last completeOnboarding that
                 \* returned success (domain = ids with such a call)
    items,       \* the items table: the ids of the rows present
    itemImages,  \* the item_images table: rows <<item id, image url>>
    bucket,      \* the "listings" storage bucket: the objects uploaded
    req          \* POST /api/listings: the request being handled, where its handler
                 \* stands, and its answer once given

mountVars == <<mounted, epoch, subs>>
pageVars == <<page, nav>>
dbVars == <<profiles, onboarded>>
apiVars == <<items, itemImages, bucket, req>>
appVars == <<pageVars, dbVars, apiVars>>
authVars == <<variant, user, session, loading, error, pending, solo, mountVars, appVars>>
vars == <<store, config, now, nextSweep, lockouts, last, authVars>>

NULL == [null |-> TRUE]

None == [op |-> "none"]

\* no page is open
NoPage == [route |-> "none"]

\* the users table with no row
NoProfiles == [id \in {} |-> [onboarding_completed |-> FALSE]]

\* no request is being handled
NoRequest == [pos |-> "idle", n |-> 0]

\* no completeOnboarding has succeeded
NoneOnboarded == [id \in {} |-> [displayName |-> ""]]

----------------------------------------------------------------------------
(* Bounds of the model *)

\* the clock runs from 0 to MaxTicks * TickMs
MaxTicks == 13

TickMs == 5 * 60 * 1000

Times == {k * TickMs : k \in 0..MaxTicks}

----------------------------------------------------------------------------
(* Strings *)

\* "a@b.c" and "b@b.c"
EmailA == <<"a", "@", "b", ".", "c">>
EmailB == <<"b", "@", "b", ".", "c">>

\* the identifiers the throttle is keyed by
Identifiers == {EmailA, EmailB}

----------------------------------------------------------------------------
(* RateLimiter *)

CLEANUP_INTERVAL_MS == 60 * 60 * 1000

DEFAULT_CONFIG ==
    [maxAttempts |-> 5, windowMs |-> 15 * 60 * 1000, lockoutMs |-> 30 * 60 * 1000]

\* constructor(config): the defaults overridden by the fields given.
\* Configurations the limiter is constructed with: the default one, one whose
\* lockout is shorter than its window, and one whose lockout equals its window.
Configs ==
    { DEFAULT_CONFIG,
      [maxAttempts |-> 1, windowMs |-> 3 * TickMs, lockoutMs |-> TickMs],
      [maxAttempts |-> 2, windowMs |-> 2 * TickMs, lockoutMs |-> 2 * TickMs] }

\* JavaScript truthiness of a number
Truthy(n) == n # 0

Has(st, id) == id \in DOMAIN st

\* delete st[id]
Delete(st, id) == [k \in DOMAIN st \ {id} |-> st[k]]

\* st[id] = e
Put(st, id, e) == [k \in DOMAIN st \cup {id} |-> IF k = id THEN e ELSE st[k]]

\* entry.lockedUntil is set (and truthy)
HasLock(e) == "lockedUntil" \in DOMAIN e /\ Truthy(e.lockedUntil)

FreshEntry(t) == [attempts |-> 1, firstAttemptTime |-> t]

\* isLocked(identifier): the value returned
IsLockedValue(st, id, t) ==
    /\ Has(st, id)
    /\ HasLock(st[id])
    /\ t < st[id].lockedUntil

\* isLocked(identifier): the store it leaves (an expired entry is deleted)
IsLockedStore(st, id, t) ==
    IF Has(st, id) /\ HasLock(st[id]) /\ ~(t < st[id].lockedUntil) /\ t >= st[id].lockedUntil
    THEN Delete(st, id)
    ELSE st

\* getLockoutTimeRemaining(identifier)
GetLockoutTimeRemaining(st, id, t) ==
    IF ~Has(st, id) \/ ~HasLock(st[id]) THEN 0
    ELSE IF st[id].lockedUntil - t > 0 THEN st[id].lockedUntil - t ELSE 0

\* Incremented with the limit test off by one (>= for >)
IncrementedOffByOne(e, cfg, t) ==
    IF e.attempts + 1 >= cfg.maxAttempts
    THEN [attempts |-> e.attempts + 1, firstAttemptTime |-> e.firstAttemptTime,
          lockedUntil |-> t + cfg.lockoutMs]
    ELSE [e EXCEPT !.attempts = e.attempts + 1]

\* entry.attempts++ ; if over the limit, entry.lockedUntil = now + lockoutMs
Incremented(e, cfg, t) ==
    IF e.attempts + 1 > cfg.maxAttempts
    THEN [attempts |-> e.attempts + 1, firstAttemptTime |-> e.firstAttemptTime,
          lockedUntil |-> t + cfg.lockoutMs]
    ELSE [e EXCEPT !.attempts = e.attempts + 1]

\* LockedOutcome that still counts the rejected attempt
LockedOutcomeCounting(st, id, t) ==
    <<[allowed |-> FALSE, remaining |-> GetLockoutTimeRemaining(st, id, t)],
      Put(st, id, [st[id] EXCEPT !.attempts = st[id].attempts + 1])>>

\* recordAttempt, the branch taken while the identifier is locked
LockedOutcome(st, id, t) ==
    <<[allowed |-> FALSE, remaining |-> GetLockoutTimeRemaining(st, id, t)], st>>

\* WindowExpired measured against twice the window, as the cleanup does
WindowExpiredDouble(e, cfg, t) == t - e.firstAttemptTime > cfg.windowMs * 2

\* recordAttempt's test "outside the time window"
WindowExpired(e, cfg, t) == t - e.firstAttemptTime > cfg.windowMs

\* RecordAttemptOutcome with the counted entry stored again after isLocked
\* deleted it
RecordAttemptOutcomeReattaching(st, cfg, id, t) ==
    LET hadEntry == Has(st, id)
        st1 == IsLockedStore(st, id, t)
    IN  IF IsLockedValue(st, id, t)
        THEN LockedOutcome(st, id, t)
        ELSE IF ~hadEntry
        THEN <<[allowed |-> TRUE, remaining |-> 0], Put(st1, id, FreshEntry(t))>>
        ELSE IF WindowExpired(st[id], cfg, t)
        THEN <<[allowed |-> TRUE, remaining |-> 0], Put(st1, id, FreshEntry(t))>>
        ELSE LET e2 == Incremented(st[id], cfg, t)
                 st2 == Put(st1, id, e2)
             IN  IF e2.attempts > cfg.maxAttempts
                 THEN <<[allowed |-> FALSE, remaining |-> cfg.lockoutMs], st2>>
                 ELSE <<[allowed |-> TRUE, remaining |-> 0], st2>>

\* recordAttempt(identifier): <<returned value, store afterwards>>.
\* `entry` is read before isLocked runs, so after isLocked has deleted an
\* expired entry, `entry` still refers to the deleted object: the increment and
\* the lock are then applied to that object and not to the store.
RecordAttemptOutcome(st, cfg, id, t) ==
    LET hadEntry == Has(st, id)
        st1 == IsLockedStore(st, id, t)
    IN  IF IsLockedValue(st, id, t)
        THEN LockedOutcome(st, id, t)
        ELSE IF ~hadEntry
        THEN <<[allowed |-> TRUE, remaining |-> 0], Put(st1, id, FreshEntry(t))>>
        ELSE IF WindowExpired(st[id], cfg, t)
        THEN <<[allowed |-> TRUE, remaining |-> 0], Put(st1, id, FreshEntry(t))>>
        ELSE LET e2 == Incremented(st[id], cfg, t)
                 st2 == IF Has(st1, id) THEN Put(st1, id, e2) ELSE st1
             IN  IF e2.attempts > cfg.maxAttempts
                 THEN <<[allowed |-> FALSE, remaining |-> cfg.lockoutMs], st2>>
                 ELSE <<[allowed |-> TRUE, remaining |-> 0], st2>>

\* the cleanup callback: every entry older than twice the window is deleted
SweepStore(st, cfg, t) ==
    [k \in {i \in DOMAIN st : ~(t - st[i].firstAttemptTime > cfg.windowMs * 2)} |-> st[k]]

EmptyStore == [k \in {} |-> FreshEntry(0)]

\* history of lockouts: none imposed
NoLockouts == [id \in Identifiers |-> 0]

\* history of lockouts after a recordAttempt that took the store from st to st2
LockoutsAfterAttempt(lk, st, st2, id) ==
    IF Has(st2, id) /\ HasLock(st2[id]) /\ ~(Has(st, id) /\ st[id] = st2[id])
    THEN [lk EXCEPT ![id] = st2[id].lockedUntil]
    ELSE lk

\* history of lockouts once the clock shows t: those over are forgotten
LockoutsAt(lk, t) == [id \in Identifiers |-> IF lk[id] <= t THEN 0 ELSE lk[id]]

----------------------------------------------------------------------------
(* The throttle on its own: its public methods, its timer and the clock *)

InitRL ==
    /\ store = EmptyStore
    /\ config \in Configs
    /\ now = 0
    /\ nextSweep = CLEANUP_INTERVAL_MS
    /\ lockouts = NoLockouts
    /\ last = None
    /\ variant = "A"
    /\ user = NULL
    /\ session = NULL
    /\ loading = TRUE
    /\ error = NULL
    /\ pending = {}
    /\ solo = [active |-> FALSE]
    /\ mounted = FALSE
    /\ epoch = 0
    /\ subs = {}
    /\ page = NoPage
    /\ nav = <<>>
    /\ profiles = NoProfiles
    /\ onboarded = NoneOnboarded
    /\ items = {}
    /\ itemImages = {}
    /\ bucket = {}
    /\ req = NoRequest

Tick ==
    /\ now + TickMs \in Times
    /\ now' = now + TickMs
    /\ lockouts' = LockoutsAt(lockouts, now')
    /\ last' = None
    /\ UNCHANGED <<store, config, nextSweep, authVars>>

RecordAttempt(id) ==
    LET out == RecordAttemptOutcome(store, config, id, now)
    IN  /\ store' = out[2]
        /\ last' = [op |-> "recordAttempt", id |-> id,
                    allowed |-> out[1].allowed, remaining |-> out[1].remaining]
        /\ lockouts' = LockoutsAfterAttempt(lockouts, store, out[2], id)
        /\ UNCHANGED <<config, now, nextSweep, authVars>>

IsLocked(id) ==
    /\ store' = IsLockedStore(store, id, now)
    /\ last' = [op |-> "isLocked", id |-> id, value |-> IsLockedValue(store, id, now)]
    /\ UNCHANGED <<config, now, nextSweep, lockouts, authVars>>

Reset(id) ==
    /\ store' = Delete(store, id)
    /\ last' = [op |-> "reset", id |-> id]
    /\ lockouts' = [lockouts EXCEPT ![id] = 0]
    /\ UNCHANGED <<config, now, nextSweep, authVars>>

ResetAll ==
    /\ store' = EmptyStore
    /\ last' = [op |-> "resetAll"]
    /\ lockouts' = NoLockouts
    /\ UNCHANGED <<config, now, nextSweep, authVars>>

Sweep ==
    /\ now >= nextSweep
    /\ store' = SweepStore(store, config, now)
    /\ nextSweep' = nextSweep + CLEANUP_INTERVAL_MS
    /\ last' = [op |-> "sweep"]
    /\ UNCHANGED <<config, now, lockouts, authVars>>

NextRL ==
    \/ Tick
    \/ \E id \in Identifiers : RecordAttempt(id)
    \/ \E id \in Identifiers : IsLocked(id)
    \/ \E id \in Identifiers : Reset(id)
    \/ ResetAll
    \/ Sweep

SpecRL == InitRL /\ [][NextRL]_vars

----------------------------------------------------------------------------
(* Claims about the throttle, checked under SpecRL *)

\* the step just taken was recordAttempt(id)
Attempted(id) == last'.op = "recordAttempt" /\ last'.id = id

\* the entry of id holds no lock and its window is still open at the clock's time
CountingEntry(id) ==
    /\ Has(store, id)
    /\ ~HasLock(store[id])
    /\ now - store[id].firstAttemptTime <= config.windowMs

\* C3: for a fresh identifier the first call is allowed and stores count 1; each
\* further call within the window is allowed and counts one more while the count
\* stays within maxAttempts (calls 2..N); the call that takes the count past
\* maxAttempts (call N+1) returns allowed=false with remaining = lockoutMs and
\* sets lockedUntil = now + lockoutMs.
C3_LockAfterMaxAttempts ==
    [][\A id \in Identifiers : Attempted(id) =>
        /\ ~Has(store, id) =>
              /\ last'.allowed /\ last'.remaining = 0
              /\ store' = Put(store, id, FreshEntry(now))
        /\ (CountingEntry(id) /\ store[id].attempts < config.maxAttempts) =>
              /\ last'.allowed /\ last'.remaining = 0
              /\ store' = Put(store, id, [store[id] EXCEPT !.attempts = @ + 1])
        /\ (CountingEntry(id) /\ store[id].attempts = config.maxAttempts) =>
              /\ ~last'.allowed
              /\ last'.remaining = config.lockoutMs
              /\ store' = Put(store, id,
                    [attempts |-> config.maxAttempts + 1,
                     firstAttemptTime |-> store[id].firstAttemptTime,
                     lockedUntil |-> now + config.lockoutMs])
    ]_vars

\* C3 witness: under the defaults the sixth call has just been rejected with
\* 1,800,000 ms remaining and the entry is locked until now + 30 minutes.
C3_Witness ==
    /\ config = DEFAULT_CONFIG
    /\ last.op = "recordAttempt"
    /\ ~last.allowed
    /\ last.remaining = 1800 * 1000
    /\ Has(store, last.id)
    /\ store[last.id].attempts = 6
    /\ HasLock(store[last.id])
    /\ store[last.id].lockedUntil = now + 1800 * 1000

\* C4: a recordAttempt for an identifier that is locked (lockedUntil in the
\* future) returns allowed=false with the time left and changes nothing in the
\* store.
C4_LockedAttemptChangesNothing ==
    [][\A id \in Identifiers : (Attempted(id) /\ IsLockedValue(store, id, now)) =>
        /\ ~last'.allowed
        /\ last'.remaining = store[id].lockedUntil - now
        /\ store' = store
    ]_vars

\* C4 witness: a rejected call made strictly after the lock was set (less than
\* the full lockout remains) with the entry still at maxAttempts + 1.
C4_Witness ==
    /\ last.op = "recordAttempt"
    /\ ~last.allowed
    /\ last.remaining > 0
    /\ last.remaining < config.lockoutMs
    /\ IsLockedValue(store, last.id, now)
    /\ store[last.id].attempts = config.maxAttempts + 1

\* C5 (the claim): with no reset/resetAll since the lockout was imposed, every
\* recordAttempt made before the lockout's expiry is rejected (default config).
C5_LockoutHoldsUntilExpiry ==
    [][\A id \in Identifiers :
        (Attempted(id) /\ config = DEFAULT_CONFIG /\ now < lockouts[id]) => ~last'.allowed
    ]_vars

\* C6 (the claim): the first recordAttempt at or after the lockout's expiry is
\* allowed and leaves a fresh entry (count 1, first attempt now, no lock).
C6_FreshAfterExpiry ==
    [][\A id \in Identifiers :
        (/\ Attempted(id)
         /\ Has(store, id)
         /\ HasLock(store[id])
         /\ now >= store[id].lockedUntil) =>
            /\ last'.allowed
            /\ Has(store', id)
            /\ store'[id] = FreshEntry(now)
    ]_vars

----------------------------------------------------------------------------
(* authService: validation *)

Whitespace == {" ", "\t", "\n"}

UpperCase == {"A", "B", "C", "D", "E", "F", "G", "H", "I", "J", "K", "L", "M",
              "N", "O", "P", "Q", "R", "S", "T", "U", "V", "W", "X", "Y", "Z"}

LowerCase == {"a", "b", "c", "d", "e", "f", "g", "h", "i", "j", "k", "l", "m",
              "n", "o", "p", "q", "r", "s", "t", "u", "v", "w", "x", "y", "z"}

Digits == {"0", "1", "2", "3", "4", "5", "6", "7", "8", "9"}

\* [^\s@]
EmailChar(c) == c \notin Whitespace /\ c # "@"

\* validateEmail: /^[^\s@]+@[^\s@]+\.[^\s@]+$/.test(email)
ValidateEmail(s) ==
    \E i \in 1..Len(s) : \E j \in 1..Len(s) :
        /\ 1 < i /\ i + 1 < j /\ j < Len(s)
        /\ s[i] = "@"
        /\ s[j] = "."
        /\ \A k \in 1..Len(s) : (k # i /\ k # j) => EmailChar(s[k])

PASSWORD_MIN_LENGTH == 8

\* ValidatePassword without the digit rule
ValidatePasswordNoDigitRule(p) ==
    IF Len(p) < PASSWORD_MIN_LENGTH
    THEN [valid |-> FALSE, message |-> <<"Password must be at least 8 characters">>]
    ELSE IF ~(\E k \in 1..Len(p) : p[k] \in UpperCase)
    THEN [valid |-> FALSE, message |-> <<"Password must contain at least one uppercase letter">>]
    ELSE IF ~(\E k \in 1..Len(p) : p[k] \in LowerCase)
    THEN [valid |-> FALSE, message |-> <<"Password must contain at least one lowercase letter">>]
    ELSE [valid |-> TRUE]

\* validatePassword: the first failing rule, in the order length, uppercase,
\* lowercase, digit
ValidatePassword(p) ==
    IF Len(p) < PASSWORD_MIN_LENGTH
    THEN [valid |-> FALSE, message |-> <<"Password must be at least 8 characters">>]
    ELSE IF ~(\E k \in 1..Len(p) : p[k] \in UpperCase)
    THEN [valid |-> FALSE, message |-> <<"Password must contain at least one uppercase letter">>]
    ELSE IF ~(\E k \in 1..Len(p) : p[k] \in LowerCase)
    THEN [valid |-> FALSE, message |-> <<"Password must contain at least one lowercase letter">>]
    ELSE IF ~(\E k \in 1..Len(p) : p[k] \in Digits)
    THEN [valid |-> FALSE, message |-> <<"Password must contain at least one number">>]
    ELSE [valid |-> TRUE]

\* String.prototype.trim
RECURSIVE TrimLeft(_)
TrimLeft(s) == IF s # <<>> /\ Head(s) \in Whitespace THEN TrimLeft(Tail(s)) ELSE s

RECURSIVE TrimRight(_)
TrimRight(s) ==
    IF s # <<>> /\ s[Len(s)] \in Whitespace THEN TrimRight(SubSeq(s, 1, Len(s) - 1)) ELSE s

Trim(s) == TrimRight(TrimLeft(s))

FULL_NAME_MIN_LENGTH == 2

\* !text : the empty string is falsy
Empty(s) == s = <<>>

----------------------------------------------------------------------------
(* authService: errors.  A message is a sequence of phrases; message.includes *)
(* looks for a phrase in it.                                                  *)

AuthError(code, message) == [code |-> code, message |-> message]

Includes(message, phrase) == \E k \in 1..Len(message) : message[k] = phrase

\* MapSupabaseError that passes the provider's error on under a code of its own
MapSupabaseErrorUnmapped(message) == AuthError("PROVIDER_ERROR", message)

\* mapSupabaseError(error), error.message being `message`
MapSupabaseError(message) ==
    IF Includes(message, "Invalid login credentials")
    THEN AuthError("INVALID_CREDENTIALS", <<"Invalid email or password">>)
    ELSE IF Includes(message, "Email not confirmed")
    THEN AuthError("INVALID_CREDENTIALS", <<"Please verify your email address before logging in">>)
    ELSE IF Includes(message, "User already registered")
    THEN AuthError("USER_ALREADY_EXISTS", <<"This email is already registered">>)
    ELSE IF Includes(message, "Password")
    THEN AuthError("WEAK_PASSWORD", <<"Password does not meet security requirements">>)
    ELSE IF Includes(message, "Network")
    THEN AuthError("NETWORK_ERROR", <<"Network error. Please check your connection.">>)
    ELSE AuthError("UNKNOWN_ERROR", message)

\* Math.ceil(ms / 1000)
CeilSeconds(ms) == (ms + 999) \div 1000

\* the error loginWithEmail throws when the throttle rejects
RateLimitError(remaining) ==
    [code |-> "RATE_LIMIT_EXCEEDED",
     message |-> <<"Too many login attempts. Try again in ", " seconds.">>,
     details |-> CeilSeconds(remaining)]

\* LoginInputError without the email format check
LoginInputErrorNoFormat(email, password) ==
    IF Empty(email) \/ Empty(password)
    THEN AuthError("INVALID_CREDENTIALS", <<"Email and password are required">>)
    ELSE NULL

\* loginWithEmail, the checks before the throttle: the error thrown, or NULL
LoginInputError(email, password) ==
    IF Empty(email) \/ Empty(password)
    THEN AuthError("INVALID_CREDENTIALS", <<"Email and password are required">>)
    ELSE IF ~ValidateEmail(email)
    THEN AuthError("INVALID_EMAIL", <<"Please enter a valid email address">>)
    ELSE NULL

\* signUpWithEmail, the checks before the provider call: the error thrown, or NULL
SignUpInputError(email, password, fullName) ==
    IF Empty(email) \/ Empty(password) \/ Empty(fullName)
    THEN AuthError("INVALID_CREDENTIALS", <<"All fields are required">>)
    ELSE IF ~ValidateEmail(email)
    THEN AuthError("INVALID_EMAIL", <<"Please enter a valid email address">>)
    ELSE IF ~ValidatePassword(password).valid
    THEN AuthError("WEAK_PASSWORD", ValidatePassword(password).message)
    ELSE IF Len(Trim(fullName)) < FULL_NAME_MIN_LENGTH
    THEN AuthError("INVALID_CREDENTIALS", <<"Full name must be at least 2 characters">>)
    ELSE NULL

\* requestPasswordReset, the checks before the provider call: the error thrown, or NULL
ResetInputError(email) ==
    IF Empty(email)
    THEN AuthError("INVALID_EMAIL", <<"Email is required">>)
    ELSE IF ~ValidateEmail(email)
    THEN AuthError("INVALID_EMAIL", <<"Please enter a valid email address">>)
    ELSE NULL

----------------------------------------------------------------------------
(* The identity provider, as the application sees it *)

\* "Passw0rd": the password of both registered accounts
GoodPassword == <<"P", "a", "s", "s", "w", "0", "r", "d">>

\* the provider's user id of a registered email
AccountId(email) == IF email = EmailA THEN "u1" ELSE "u2"

Registered(email) == email \in Identifiers

\* error messages of the provider
InvalidLoginCredentials == <<"Invalid login credentials">>
NetworkFailure == <<"Network", " request failed">>
UserAlreadyRegistered == <<"User already registered">>
EmailRateLimit == <<"Email rate limit exceeded">>
ProviderNotEnabled == <<"Unsupported provider: provider is not enabled">>
NoUserOrSession == <<"No user or session returned from auth">>
NoUser == <<"No user returned from signup">>

\* what supabase.auth.signInWithPassword may answer to the call p
LoginResponses(p) ==
    IF Registered(p.input[1]) /\ p.input[2] = GoodPassword
    THEN { [kind |-> "session", refresh_token |-> "rt"],
           [kind |-> "empty"],
           [kind |-> "error", message |-> NetworkFailure] }
    ELSE { [kind |-> "error", message |-> InvalidLoginCredentials],
           [kind |-> "error", message |-> NetworkFailure] }

\* what supabase.auth.signUp may answer
SignUpResponses ==
    { [kind |-> "user"],
      [kind |-> "empty"],
      [kind |-> "error", message |-> UserAlreadyRegistered] }

\* what signInWithOAuth, signOut and resetPasswordForEmail may answer
OAuthResponses == { [kind |-> "ok"], [kind |-> "error", message |-> ProviderNotEnabled] }
SignOutResponses == { [kind |-> "ok"], [kind |-> "error", message |-> NetworkFailure] }
ResetResponses == { [kind |-> "ok"], [kind |-> "error", message |-> EmailRateLimit] }

----------------------------------------------------------------------------
(* authService: the asynchronous functions, from the provider's answer on *)

\* mapSupabaseUserToUser
MapSupabaseUserToUser(email) ==
    [id |-> AccountId(email), email |-> email, mappedBy |-> "authService"]

\* `value || ""`
OrEmpty(v) == IF v = "" \/ v = "null" THEN "" ELSE v

\* loginWithEmail after the provider answered: the error thrown, or NULL
LoginError(resp) ==
    IF resp.kind = "error" THEN MapSupabaseError(resp.message)
    ELSE IF resp.kind = "empty" THEN MapSupabaseError(NoUserOrSession)
    ELSE NULL

\* loginWithEmail's return value
LoginResult(p, resp) ==
    [user |-> MapSupabaseUserToUser(p.input[1]),
     accessToken |-> "at",
     refreshToken |-> OrEmpty(resp.refresh_token)]

\* signUpWithEmail after the provider answered: the error thrown, or NULL
SignUpError(resp) ==
    IF resp.kind = "error" THEN MapSupabaseError(resp.message)
    ELSE IF resp.kind = "empty" THEN MapSupabaseError(NoUser)
    ELSE NULL

\* signInWithGoogle, logout, requestPasswordReset after the provider answered
CallError(resp) ==
    IF resp.kind = "error" THEN MapSupabaseError(resp.message) ELSE NULL

----------------------------------------------------------------------------
(* AuthProvider: the operations.  Each asynchronous operation is a step up to *)
(* its provider call and a step from the provider's answer on.                *)

\* at most MaxInFlight operations are suspended at a time
MaxInFlight == 2

NoSolo == [active |-> FALSE]

SESSION_LIFETIME_MS == 60 * 60 * 1000

\* the second implementation's catch: `err.code ? err : {UNKNOWN_ERROR, ...}`
Caught(err) ==
    IF variant = "A" THEN err
    ELSE IF "code" \in DOMAIN err /\ err.code # "" THEN err
    ELSE AuthError("UNKNOWN_ERROR", <<"An unknown error occurred">>)

\* the second implementation's handleSignUp throws this after a successful signup
ConfirmationSent(email) ==
    [code |-> "CONFIRMATION_SENT",
     message |-> <<"A confirmation email has been sent to ", email>>]

\* what the caller of an operation observes when it settles
Settled(op, input, err) ==
    [op |-> op, input |-> input, rejected |-> err # NULL, err |-> err,
     solo |-> TRUE, preUser |-> user, preSession |-> session]

SettledLater(op, input, err) ==
    [op |-> op, input |-> input, rejected |-> err # NULL, err |-> err,
     solo |-> solo.active,
     preUser |-> IF solo.active THEN solo.user ELSE NULL,
     preSession |-> IF solo.active THEN solo.session ELSE NULL]

\* the calls of operation op in flight
Calls(op) == {p \in pending : p.op = op}

\* an operation suspends on its provider call
Suspend(call) ==
    /\ Cardinality(pending) < MaxInFlight
    /\ call \notin pending
    /\ pending' = pending \cup {call}
    /\ solo' = IF pending = {}
               THEN [active |-> TRUE, user |-> user, session |-> session]
               ELSE NoSolo
    /\ last' = None

\* Reject that also drops the signed-in user
RejectClearingUser(err) ==
    /\ error' = Caught(err)
    /\ loading' = FALSE
    /\ user' = NULL
    /\ session' = NULL

\* catch (err) { setError(err); throw err } finally { setLoading(false) }
Reject(err) ==
    /\ error' = Caught(err)
    /\ loading' = FALSE
    /\ UNCHANGED <<user, session>>

\* ThrottleRejects that lets every attempt through
ThrottleRejectsNever(result) == FALSE

\* loginWithEmail: `if (!rateLimitResult.allowed)`
ThrottleRejects(result) == ~result.allowed

\* ResetOnSuccess clearing every identifier (resetAll for reset)
ResetOnSuccessAll(st, email) == EmptyStore

\* loginWithEmail: rateLimiter.reset(email) after a successful sign-in
ResetOnSuccess(st, email) == Delete(st, email)

\* login(email, password) up to the provider call
LoginStart(email, password) ==
    LET inputError == LoginInputError(email, password)
        out == RecordAttemptOutcome(store, config, email, now)
    IN  IF inputError # NULL
        THEN /\ Reject(inputError)
             /\ last' = Settled("login", <<email, password>>, Caught(inputError))
             /\ solo' = NoSolo
             /\ UNCHANGED <<store, lockouts, pending, config, now, nextSweep, variant, mountVars, appVars>>
        ELSE /\ store' = out[2]
             /\ lockouts' = LockoutsAfterAttempt(lockouts, store, out[2], email)
             /\ UNCHANGED <<config, now, nextSweep, variant, mountVars, appVars>>
             /\ IF ThrottleRejects(out[1])
                THEN /\ Reject(RateLimitError(out[1].remaining))
                     /\ last' = Settled("login", <<email, password>>, Caught(RateLimitError(out[1].remaining)))
                     /\ solo' = NoSolo
                     /\ UNCHANGED pending
                ELSE /\ Suspend([op |-> "login", input |-> <<email, password>>])
                     /\ loading' = TRUE
                     /\ error' = NULL
                     /\ UNCHANGED <<user, session>>

\* login from the provider's answer on
LoginSettle(p, resp) ==
    /\ p \in pending /\ p.op = "login"
    /\ resp \in LoginResponses(p)
    /\ pending' = pending \ {p}
    /\ solo' = NoSolo
    /\ UNCHANGED <<config, now, nextSweep, variant, mountVars, appVars>>
    /\ IF LoginError(resp) = NULL
       THEN /\ store' = ResetOnSuccess(store, p.input[1])
            /\ lockouts' = [lockouts EXCEPT ![p.input[1]] = 0]
            /\ user' = LoginResult(p, resp).user
            /\ session' = [user |-> LoginResult(p, resp).user,
                           accessToken |-> LoginResult(p, resp).accessToken,
                           refreshToken |-> LoginResult(p, resp).refreshToken,
                           expiresAt |-> now + SESSION_LIFETIME_MS]
            /\ loading' = FALSE
            /\ last' = SettledLater("login", p.input, NULL)
            /\ UNCHANGED error
       ELSE /\ Reject(LoginError(resp))
            /\ last' = SettledLater("login", p.input, Caught(LoginError(resp)))
            /\ UNCHANGED <<store, lockouts>>

\* signUp(email, password, fullName) up to the provider call
SignUpStart(email, password, fullName) ==
    LET inputError == SignUpInputError(email, password, fullName)
    IN  /\ UNCHANGED <<store, lockouts, config, now, nextSweep, variant, mountVars, appVars>>
        /\ IF inputError # NULL
           THEN /\ Reject(inputError)
                /\ last' = Settled("signUp", <<email, password, fullName>>, Caught(inputError))
                /\ solo' = NoSolo
                /\ UNCHANGED pending
           ELSE /\ Suspend([op |-> "signUp", input |-> <<email, password, fullName>>])
                /\ loading' = TRUE
                /\ error' = NULL
                /\ UNCHANGED <<user, session>>

\* signUp from the provider's answer on.  The first implementation resolves
\* after a successful signup; the second sets and throws CONFIRMATION_SENT.
SignUpSettle(p, resp) ==
    LET err == IF SignUpError(resp) # NULL THEN SignUpError(resp)
               ELSE IF variant = "B" THEN ConfirmationSent(p.input[1])
               ELSE NULL
    IN  /\ p \in pending /\ p.op = "signUp"
        /\ resp \in SignUpResponses
        /\ pending' = pending \ {p}
        /\ solo' = NoSolo
        /\ UNCHANGED <<store, lockouts, config, now, nextSweep, variant, mountVars, appVars>>
        /\ IF err = NULL
           THEN /\ loading' = FALSE
                /\ last' = SettledLater("signUp", p.input, NULL)
                /\ UNCHANGED <<user, session, error>>
           ELSE /\ Reject(err)
                /\ last' = SettledLater("signUp", p.input, Caught(err))

\* signInWithGoogle() up to the provider call; only the second implementation
\* touches the loading flag
GoogleStart ==
    /\ Suspend([op |-> "signInWithGoogle", input |-> <<>>])
    /\ error' = NULL
    /\ loading' = IF variant = "B" THEN TRUE ELSE loading
    /\ UNCHANGED <<store, lockouts, user, session, config, now, nextSweep, variant, mountVars, appVars>>

\* signInWithGoogle from the provider's answer on
GoogleSettle(p, resp) ==
    /\ p \in pending /\ p.op = "signInWithGoogle"
    /\ resp \in OAuthResponses
    /\ pending' = pending \ {p}
    /\ solo' = NoSolo
    /\ loading' = IF variant = "B" THEN FALSE ELSE loading
    /\ error' = IF CallError(resp) # NULL THEN Caught(CallError(resp)) ELSE error
    /\ last' = SettledLater("signInWithGoogle", <<>>,
                            IF CallError(resp) # NULL THEN Caught(CallError(resp)) ELSE NULL)
    /\ UNCHANGED <<store, lockouts, user, session, config, now, nextSweep, variant, mountVars, appVars>>

\* LogoutStart that leaves the loading flag alone
LogoutStartNotLoading ==
    /\ Suspend([op |-> "logout", input |-> <<>>])
    /\ error' = NULL
    /\ UNCHANGED <<store, lockouts, user, session, loading, config, now, nextSweep, variant,
                   mountVars, appVars>>

\* logout() up to the provider call
LogoutStart ==
    /\ Suspend([op |-> "logout", input |-> <<>>])
    /\ loading' = TRUE
    /\ error' = NULL
    /\ UNCHANGED <<store, lockouts, user, session, config, now, nextSweep, variant, mountVars, appVars>>

\* LogoutSettle that forgets setSession(null)
LogoutSettleKeepsSession(p, resp) ==
    /\ p \in pending /\ p.op = "logout"
    /\ resp \in SignOutResponses
    /\ pending' = pending \ {p}
    /\ solo' = NoSolo
    /\ UNCHANGED <<store, lockouts, config, now, nextSweep, variant, mountVars, appVars>>
    /\ IF CallError(resp) = NULL
       THEN /\ user' = NULL
            /\ loading' = FALSE
            /\ last' = SettledLater("logout", <<>>, NULL)
            /\ UNCHANGED <<error, session>>
       ELSE /\ Reject(CallError(resp))
            /\ last' = SettledLater("logout", <<>>, Caught(CallError(resp)))

\* logout from the provider's answer on: User and Session are cleared only
\* when logout() did not throw
LogoutSettle(p, resp) ==
    /\ p \in pending /\ p.op = "logout"
    /\ resp \in SignOutResponses
    /\ pending' = pending \ {p}
    /\ solo' = NoSolo
    /\ UNCHANGED <<store, lockouts, config, now, nextSweep, variant, mountVars, appVars>>
    /\ IF CallError(resp) = NULL
       THEN /\ user' = NULL
            /\ session' = NULL
            /\ loading' = FALSE
            /\ last' = SettledLater("logout", <<>>, NULL)
            /\ UNCHANGED error
       ELSE /\ Reject(CallError(resp))
            /\ last' = SettledLater("logout", <<>>, Caught(CallError(resp)))

\* resetPassword(email) up to the provider call
ResetPasswordStart(email) ==
    LET inputError == ResetInputError(email)
    IN  /\ UNCHANGED <<store, lockouts, config, now, nextSweep, variant, mountVars, appVars>>
        /\ IF inputError # NULL
           THEN /\ Reject(inputError)
                /\ last' = Settled("resetPassword", <<email>>, Caught(inputError))
                /\ solo' = NoSolo
                /\ UNCHANGED pending
           ELSE /\ Suspend([op |-> "resetPassword", input |-> <<email>>])
                /\ loading' = TRUE
                /\ error' = NULL
                /\ UNCHANGED <<user, session>>

\* resetPassword from the provider's answer on
ResetPasswordSettle(p, resp) ==
    /\ p \in pending /\ p.op = "resetPassword"
    /\ resp \in ResetResponses
    /\ pending' = pending \ {p}
    /\ solo' = NoSolo
    /\ UNCHANGED <<store, lockouts, config, now, nextSweep, variant, mountVars, appVars>>
    /\ IF CallError(resp) = NULL
       THEN /\ loading' = FALSE
            /\ last' = SettledLater("resetPassword", p.input, NULL)
            /\ UNCHANGED <<user, session, error>>
       ELSE /\ Reject(CallError(resp))
            /\ last' = SettledLater("resetPassword", p.input, Caught(CallError(resp)))

\* clearError()
ClearError ==
    /\ error # NULL
    /\ error' = NULL
    /\ solo' = NoSolo
    /\ last' = None
    /\ UNCHANGED <<store, lockouts, user, session, loading, pending, config, now, nextSweep, variant, mountVars, appVars>>

----------------------------------------------------------------------------
(* The application: the AuthProvider over the rateLimiter singleton *)

\* inputs typed into the forms
BadEmail == <<"a", "@", "b">>
SpacedEmail == <<"a", " ", "@", "b", ".", "c">>
WrongPassword == <<"w", "r", "o", "n", "g">>
NoUpperPassword == <<"a", "b", "c", "1", "2", "3", "4", "5">>
FullName == <<"A", "l">>
BlankName == <<" ", "x", " ">>

\* login(email, password) with an input the checks before the throttle reject
InvalidLoginInputs ==
    { <<<<>>, GoodPassword>>, <<EmailA, <<>>>>,
      <<BadEmail, GoodPassword>>, <<SpacedEmail, WrongPassword>> }

\* login(email, password) as called by the forms: one account
LoginInputs ==
    { <<EmailA, GoodPassword>>, <<EmailA, WrongPassword>> } \cup InvalidLoginInputs

\* login(email, password) as called by the forms: two identifiers
ThrottledLoginInputs ==
    { <<EmailA, GoodPassword>>, <<EmailA, WrongPassword>>, <<EmailB, WrongPassword>> }
        \cup InvalidLoginInputs

\* signUp(email, password, fullName) as called by the forms
SignUpInputs ==
    { <<EmailA, GoodPassword, FullName>>,
      <<<<>>, GoodPassword, FullName>>,
      <<EmailA, <<>>, FullName>>,
      <<EmailA, GoodPassword, <<>>>>,
      <<BadEmail, GoodPassword, FullName>>,
      <<EmailA, NoUpperPassword, FullName>>,
      <<EmailA, GoodPassword, BlankName>> }

\* resetPassword(email) as called by the forms
ResetInputs == { EmailA, <<>>, BadEmail }

\* the clock of the application runs from 0 to MaxAuthTicks * AuthTickMs
MaxAuthTicks == 2

AuthTickMs == 30 * 60 * 1000

Init ==
    /\ store = EmptyStore
    /\ config = DEFAULT_CONFIG
    /\ now = 0
    /\ nextSweep = CLEANUP_INTERVAL_MS
    /\ lockouts = NoLockouts
    /\ last = None
    /\ variant \in {"A", "B"}
    /\ user = NULL
    /\ session = NULL
    /\ loading = TRUE
    /\ error = NULL
    /\ pending = {}
    /\ solo = NoSolo
    /\ mounted = TRUE
    /\ epoch = 1
    /\ subs = {1}
    /\ page = NoPage
    /\ nav = <<>>
    /\ profiles = NoProfiles
    /\ onboarded = NoneOnboarded
    /\ items = {}
    /\ itemImages = {}
    /\ bucket = {}
    /\ req = NoRequest

AuthTick ==
    /\ now + AuthTickMs <= MaxAuthTicks * AuthTickMs
    /\ now' = now + AuthTickMs
    /\ lockouts' = LockoutsAt(lockouts, now')
    /\ last' = None
    /\ UNCHANGED <<store, config, nextSweep, authVars>>

\* the five operations and clearError, interleaved, at one instant of the clock
Next ==
    \/ \E in \in LoginInputs : LoginStart(in[1], in[2])
    \/ \E p \in Calls("login") : \E r \in LoginResponses(p) :
          LoginSettle(p, r)
    \/ \E in \in SignUpInputs : SignUpStart(in[1], in[2], in[3])
    \/ \E p \in pending, r \in SignUpResponses :
          SignUpSettle(p, r)
    \/ GoogleStart
    \/ \E p \in pending, r \in OAuthResponses :
          GoogleSettle(p, r)
    \/ LogoutStart
    \/ \E p \in pending, r \in SignOutResponses :
          LogoutSettle(p, r)
    \/ \E e \in ResetInputs : ResetPasswordStart(e)
    \/ \E p \in pending, r \in ResetResponses :
          ResetPasswordSettle(p, r)
    \/ ClearError

Spec == Init /\ [][Next]_vars

\* login over the throttle as the clock advances, for two identifiers
NextLogin ==
    \/ AuthTick
    \/ Sweep
    \/ \E in \in ThrottledLoginInputs : LoginStart(in[1], in[2])
    \/ \E p \in Calls("login") : \E r \in LoginResponses(p) : LoginSettle(p, r)

SpecLogin == Init /\ [][NextLogin]_vars

----------------------------------------------------------------------------
(* Claims about the orchestrator's operations, checked under Spec *)

Operations == {"login", "signUp", "signInWithGoogle", "logout", "resetPassword"}

\* C1 (the claim): when logout settles, User and Session are both null,
\* whether the provider's sign-out succeeded or failed.
C1_LogoutAlwaysClears ==
    last.op = "logout" => (user = NULL /\ session = NULL)

\* C1 (amended): when logout settles after a successful sign-out, User and
\* Session are both null; when the sign-out failed, logout rejects, the shared
\* error is the error thrown and the step leaves User and Session as they were.
C1_LogoutClearsOnSuccess ==
    [][last'.op = "logout" =>
        IF last'.rejected
        THEN user' = user /\ session' = session /\ error' = last'.err /\ error' # NULL
        ELSE user' = NULL /\ session' = NULL
    ]_vars

\* C1 witness: after a successful login, a logout whose sign-out failed has
\* just settled, and the signed-in User and Session are still there.
C1_Witness ==
    /\ last.op = "logout"
    /\ last.rejected
    /\ user # NULL
    /\ session # NULL
    /\ session.user = user

\* C2: an operation that ran with nothing interleaved and failed has set the
\* shared error (to the error it threw) and left User and Session as they were
\* when it started; one that succeeded has left the shared error null.
C2_FailureKeepsState ==
    (last.op \in Operations /\ last.solo) =>
        IF last.rejected
        THEN /\ error # NULL
             /\ error = last.err
             /\ user = last.preUser
             /\ session = last.preSession
        ELSE error = NULL

\* C2 witness: with a user signed in, a login that ran alone has just failed at
\* the provider.
C2_Witness ==
    /\ last.op = "login"
    /\ last.solo
    /\ last.rejected
    /\ last.err.code = "INVALID_CREDENTIALS"
    /\ last.input[2] # <<>>
    /\ last.preUser # NULL
    /\ user = last.preUser

\* the inputs the validation of each operation is to refuse
InvalidInput(op, input) ==
    CASE op = "login" ->
            input[1] = <<>> \/ input[2] = <<>> \/ ~ValidateEmail(input[1])
      [] op = "signUp" ->
            \/ input[1] = <<>> \/ input[2] = <<>> \/ input[3] = <<>>
            \/ ~ValidateEmail(input[1])
            \/ ~ValidatePassword(input[2]).valid
            \/ Len(Trim(input[3])) < 2
      [] op = "resetPassword" ->
            input[1] = <<>> \/ ~ValidateEmail(input[1])
      [] OTHER -> FALSE

\* C9: a login, signUp or resetPassword with an invalid input rejects in the
\* step that called it, without putting a provider call in flight, and the
\* failing login leaves the throttle's store as it was; no call in flight ever
\* carries an invalid input.
C9_ValidationBeforeProvider ==
    [][/\ (last'.op \in Operations /\ InvalidInput(last'.op, last'.input)) =>
            /\ last'.rejected
            /\ pending' = pending
            /\ store' = store
       /\ \A p \in pending' : ~InvalidInput(p.op, p.input)
    ]_vars

\* C9 witness: a login with a malformed email has just been rejected while the
\* throttle holds a record that it left alone.
C9_Witness ==
    /\ last.op = "login"
    /\ last.rejected
    /\ last.input[1] # <<>> /\ last.input[2] # <<>>
    /\ ~ValidateEmail(last.input[1])
    /\ last.err.code = "INVALID_EMAIL"
    /\ Has(store, EmailA)

----------------------------------------------------------------------------
(* Claims about login and the throttle, checked under SpecLogin *)

\* recordAttempt would refuse the identifier: it is locked, or its count has
\* reached maxAttempts within the window
Exhausted(id) ==
    \/ IsLockedValue(store, id, now)
    \/ CountingEntry(id) /\ store[id].attempts >= config.maxAttempts

\* the login calls put in flight by the step
NewLoginCalls == {p \in pending' \ pending : p.op = "login"}

\* C8: a login whose provider call is put in flight has first recorded an
\* attempt for its email; a login (with well-formed input) for an email the
\* throttle refuses, in particular after maxAttempts attempts within the
\* window and whatever its password, rejects with RATE_LIMIT_EXCEEDED in the
\* step that called it, puts no provider call in flight and leaves User and
\* Session as they were.
C8_ThrottleBeforeProvider ==
    [][/\ \A p \in NewLoginCalls :
            /\ Has(store', p.input[1])
            /\ ~HasLock(store'[p.input[1]])
            /\ store'[p.input[1]].attempts =
                  IF CountingEntry(p.input[1]) THEN store[p.input[1]].attempts + 1 ELSE 1
            /\ ~Exhausted(p.input[1])
       /\ \A id \in Identifiers :
            (/\ Exhausted(id)
             /\ last'.op = "login"
             /\ last'.input[1] = id
             /\ last'.input[2] # <<>>
             /\ pending' = pending) =>
                /\ last'.rejected
                /\ last'.err.code = "RATE_LIMIT_EXCEEDED"
                /\ error' = last'.err
                /\ user' = user
                /\ session' = session
    ]_vars

\* C8 witness: after five logins with a wrong password, a login with the right
\* password has just been rejected by the throttle, 1800 seconds to wait.
C8_Witness ==
    /\ last.op = "login"
    /\ last.input = <<EmailA, GoodPassword>>
    /\ last.rejected
    /\ last.err.code = "RATE_LIMIT_EXCEEDED"
    /\ last.err.details = 1800
    /\ pending = {}
    /\ Has(store, EmailA)
    /\ store[EmailA].attempts = 6
    /\ user = NULL

\* the step is the settling of a login call that was in flight
LoginSettled == last'.op = "login" /\ pending' # pending

\* C10: a login that succeeds deletes the record of its email and nothing
\* else; a login that fails at the provider leaves the whole store, its own
\* counted attempt included, as it is.
C10_ResetOnSuccessOnly ==
    [][LoginSettled =>
        IF last'.rejected
        THEN store' = store
        ELSE /\ ~Has(store', last'.input[1])
             /\ store' = Delete(store, last'.input[1])
    ]_vars

\* C10 witness: a login for a@b.c has just succeeded, its record is gone and
\* the record of b@b.c is still there.
C10_Witness ==
    /\ last.op = "login"
    /\ ~last.rejected
    /\ last.input[1] = EmailA
    /\ ~Has(store, EmailA)
    /\ Has(store, EmailB)
    /\ store[EmailB].attempts >= 2

\* C10 witness, the failing side: a login has just failed at the provider and
\* its counted attempts are in the store.
C10_WitnessFailure ==
    /\ last.op = "login"
    /\ last.rejected
    /\ last.err.code = "INVALID_CREDENTIALS"
    /\ last.input[2] # <<>>
    /\ Has(store, last.input[1])
    /\ store[last.input[1]].attempts >= 2

----------------------------------------------------------------------------
(* AuthProvider: the mount effect (initializeAuth, the session-changed       *)
(* subscription, the background profile fetch) and its cleanup               *)

\* the mount effect runs at most MaxMounts times
MaxMounts == 2

\* the clock of the mounted provider runs from 0 to MaxMountTicks * MountTickMs
MaxMountTicks == 2

\* setTimeout(() => reject(new Error("Session check timeout")), 3000)
SESSION_CHECK_TIMEOUT_MS == 3000

\* the clock of the mounted provider advances by one timeout at a time
MountTickMs == SESSION_CHECK_TIMEOUT_MS

\* the sessions the identity provider hands out: none, one of a@b.c (with or
\* without a refresh token, the onboarding flag of the metadata set or not),
\* and one that carries no user; expires_at is a positive number of seconds
ProviderSessions ==
    { [user |-> EmailA, meta |-> TRUE, access_token |-> "at", refresh_token |-> "rt", expires_at |-> 3600],
      [user |-> EmailA, meta |-> FALSE, access_token |-> "at", refresh_token |-> "", expires_at |-> 3600] }
    \cup { [user |-> <<>>, meta |-> FALSE, access_token |-> "at", refresh_token |-> "rt", expires_at |-> 3600] }

\* `value || null`, for the credentials (strings)
\* a null credential
NullToken == "null"

OrNull(v) == IF v = "" THEN NullToken ELSE v

\* userData built from the session's user; the first implementation copies
\* user_metadata.onboarding_completed, the second does not
UserData(s) ==
    IF variant = "A"
    THEN [id |-> AccountId(s.user), email |-> s.user, onboarding_completed |-> s.meta,
          mappedBy |-> "session"]
    ELSE [id |-> AccountId(s.user), email |-> s.user, mappedBy |-> "session"]

\* SessionOf that drops the access credential
SessionOfWithoutToken(s, u) ==
    [user |-> u,
     accessToken |-> NullToken,
     refreshToken |-> OrNull(s.refresh_token),
     expiresAt |-> s.expires_at]

\* the Session state built from a provider session
SessionOf(s, u) ==
    [user |-> u,
     accessToken |-> s.access_token,
     refreshToken |-> OrNull(s.refresh_token),
     expiresAt |-> s.expires_at]

\* `currentSession && currentSession.user` / `authSession?.user`
HasUser(s) == s # NULL /\ s.user # <<>>

\* MountedIn that never sees the cleanup
MountedInAlways(e) == TRUE

\* the `mounted` flag of the closure created in epoch e (the second
\* implementation has no such flag)
MountedIn(e) == IF variant = "A" THEN mounted /\ epoch = e ELSE TRUE

\* getUserProfile(userData.id).then(...) is started (first implementation only)
ProfileFetch(e, s) == [op |-> "getUserProfile", epoch |-> e, id |-> AccountId(s.user)]

\* what supabase.auth.getSession() may answer
GetSessionResponses ==
    { [kind |-> "session", session |-> s] : s \in ProviderSessions \cup {NULL} }
    \cup { [kind |-> "error"] }

\* what getCurrentUser() may return (second implementation)
GetUserResponses == { NULL, MapSupabaseUserToUser(EmailA) }

\* what getUserProfile may return: the row of the users table, or null
ProfileResponses(p) ==
    { NULL } \cup
    { [id |-> p.id, onboarding_completed |-> b, mappedBy |-> "users"] : b \in BOOLEAN }

\* the state as initializeAuth / the listener leave it for session s
ApplySession(e, s, fetch) ==
    IF HasUser(s)
    THEN /\ user' = UserData(s)
         /\ session' = SessionOf(s, UserData(s))
         /\ pending' = IF variant = "A" THEN (pending \ fetch[1]) \cup {ProfileFetch(e, s)}
                       ELSE pending \ fetch[1]
    ELSE /\ user' = NULL
         /\ session' = NULL
         /\ pending' = pending \ fetch[1]

\* the effect's cleanup that forgets to unsubscribe
CleanupKeepsSubscription == subs

\* the effect's cleanup: listener.subscription.unsubscribe()
Cleanup == subs \ {epoch}

\* the mount effect runs: initializeAuth() is called and suspends on the
\* session fetch, then the subscription is created
Mount ==
    /\ ~mounted
    /\ epoch < MaxMounts
    /\ now + SESSION_CHECK_TIMEOUT_MS <= MaxMountTicks * MountTickMs
    /\ mounted' = TRUE
    /\ epoch' = epoch + 1
    /\ subs' = subs \cup {epoch + 1}
    /\ pending' = pending \cup
          {IF variant = "A"
           THEN [op |-> "init", epoch |-> epoch + 1, deadline |-> now + SESSION_CHECK_TIMEOUT_MS]
           ELSE [op |-> "init", epoch |-> epoch + 1]}
    /\ loading' = IF variant = "B" THEN TRUE ELSE loading
    /\ solo' = NoSolo
    /\ last' = [op |-> "mount"]
    /\ UNCHANGED <<store, lockouts, config, now, nextSweep, variant, user, session, error, appVars>>

\* the effect's cleanup runs
Unmount ==
    /\ mounted
    /\ mounted' = FALSE
    /\ subs' = Cleanup
    /\ solo' = NoSolo
    /\ last' = [op |-> "unmount"]
    /\ UNCHANGED <<store, lockouts, config, now, nextSweep, variant, user, session,
                   loading, error, pending, epoch, appVars>>

\* Date.now() advances, up to the instant the next timer is due
MountTick ==
    /\ now + MountTickMs <= MaxMountTicks * MountTickMs
    /\ \A p \in Calls("init") : "deadline" \in DOMAIN p => now < p.deadline
    /\ now' = now + MountTickMs
    /\ lockouts' = LockoutsAt(lockouts, now')
    /\ last' = None
    /\ UNCHANGED <<store, config, nextSweep, authVars>>

\* first implementation: the session fetch answers before the timer fires
InitSettle(p, resp) ==
    /\ variant = "A"
    /\ p \in pending /\ p.op = "init"
    /\ now <= p.deadline
    /\ resp \in GetSessionResponses
    /\ solo' = NoSolo
    /\ last' = [op |-> "init", epoch |-> p.epoch, timedOut |-> FALSE]
    /\ UNCHANGED <<store, lockouts, config, now, nextSweep, variant, error, mountVars, appVars>>
    /\ IF ~MountedIn(p.epoch)
       THEN /\ pending' = pending \ {p}
            /\ UNCHANGED <<user, session, loading>>
       ELSE /\ loading' = FALSE
            /\ IF resp.kind = "error"
               THEN /\ user' = NULL
                    /\ session' = NULL
                    /\ pending' = pending \ {p}
               ELSE ApplySession(p.epoch, resp.session, <<{p}>>)

\* InitTimeout that returns without touching the state
InitTimeoutSilent(p) ==
    /\ variant = "A"
    /\ p \in pending /\ p.op = "init"
    /\ now >= p.deadline
    /\ pending' = pending \ {p}
    /\ solo' = NoSolo
    /\ last' = [op |-> "init", epoch |-> p.epoch, timedOut |-> TRUE]
    /\ UNCHANGED <<store, lockouts, config, now, nextSweep, variant, error, mountVars,
                   user, session, loading, appVars>>

\* first implementation: the timer fires first, the session is taken as null
InitTimeout(p) ==
    /\ variant = "A"
    /\ p \in pending /\ p.op = "init"
    /\ now >= p.deadline
    /\ pending' = pending \ {p}
    /\ solo' = NoSolo
    /\ last' = [op |-> "init", epoch |-> p.epoch, timedOut |-> TRUE]
    /\ UNCHANGED <<store, lockouts, config, now, nextSweep, variant, error, mountVars, appVars>>
    /\ IF ~MountedIn(p.epoch)
       THEN UNCHANGED <<user, session, loading>>
       ELSE /\ user' = NULL
            /\ session' = NULL
            /\ loading' = FALSE

\* second implementation: getCurrentSession() answers (null on any error) and
\* initializeAuth suspends on getCurrentUser()
InitSessionSettle(p, resp) ==
    /\ variant = "B"
    /\ p \in pending /\ p.op = "init"
    /\ resp \in GetSessionResponses
    /\ pending' = (pending \ {p}) \cup
          {[op |-> "initUser", epoch |-> p.epoch,
            session |-> IF resp.kind = "error" THEN NULL ELSE resp.session]}
    /\ solo' = NoSolo
    /\ last' = None
    /\ UNCHANGED <<store, lockouts, config, now, nextSweep, variant, user, session,
                   loading, error, mountVars, appVars>>

\* second implementation: getCurrentUser() answers and initializeAuth finishes
InitUserSettle(p, u) ==
    /\ variant = "B"
    /\ p \in pending /\ p.op = "initUser"
    /\ u \in GetUserResponses
    /\ pending' = pending \ {p}
    /\ solo' = NoSolo
    /\ loading' = FALSE
    /\ last' = [op |-> "init", epoch |-> p.epoch, timedOut |-> FALSE]
    /\ UNCHANGED <<store, lockouts, config, now, nextSweep, variant, error, mountVars, appVars>>
    /\ IF p.session # NULL /\ u # NULL
       THEN /\ user' = u
            /\ session' = SessionOf(p.session, u)
       ELSE /\ user' = NULL
            /\ session' = NULL

\* ProfileSettle that signs the user out when there is no profile
ProfileSettleClearing(p, dbUser) ==
    /\ p \in pending /\ p.op = "getUserProfile"
    /\ dbUser \in ProfileResponses(p)
    /\ pending' = pending \ {p}
    /\ solo' = NoSolo
    /\ last' = [op |-> "profile", epoch |-> p.epoch, found |-> dbUser # NULL]
    /\ user' = IF MountedIn(p.epoch) THEN dbUser ELSE user
    /\ UNCHANGED <<store, lockouts, config, now, nextSweep, variant, session,
                   loading, error, mountVars, appVars>>

\* the background profile fetch answers: `if (mounted && dbUser) setUser(dbUser)`
ProfileSettle(p, dbUser) ==
    /\ p \in pending /\ p.op = "getUserProfile"
    /\ dbUser \in ProfileResponses(p)
    /\ pending' = pending \ {p}
    /\ solo' = NoSolo
    /\ last' = [op |-> "profile", epoch |-> p.epoch, found |-> dbUser # NULL]
    /\ user' = IF MountedIn(p.epoch) /\ dbUser # NULL THEN dbUser ELSE user
    /\ UNCHANGED <<store, lockouts, config, now, nextSweep, variant, session,
                   loading, error, mountVars, appVars>>

\* the subscriptions of the first implementation whose callback passes its
\* `if (!mounted) return`; every subscription of the second
Applying == {e \in subs : MountedIn(e)}

\* the identity provider fires a session-changed event: the callback of every
\* active subscription runs
SessionEvent(s) ==
    /\ s \in ProviderSessions \cup {NULL}
    /\ subs # {}
    /\ solo' = NoSolo
    /\ last' = [op |-> "event", session |-> s, delivered |-> Cardinality(subs),
                applied |-> Cardinality(Applying)]
    /\ UNCHANGED <<store, lockouts, config, now, nextSweep, variant, error, mountVars, appVars>>
    /\ IF Applying = {}
       THEN UNCHANGED <<user, session, loading, pending>>
       ELSE /\ ApplySession(epoch, s, <<{}>>)
            /\ loading' = IF variant = "A" THEN FALSE ELSE loading

\* the provider before its effects have run
InitMount ==
    /\ store = EmptyStore
    /\ config = DEFAULT_CONFIG
    /\ now = 0
    /\ nextSweep = CLEANUP_INTERVAL_MS
    /\ lockouts = NoLockouts
    /\ last = None
    /\ variant \in {"A", "B"}
    /\ user = NULL
    /\ session = NULL
    /\ loading = TRUE
    /\ error = NULL
    /\ pending = {}
    /\ solo = NoSolo
    /\ mounted = FALSE
    /\ epoch = 0
    /\ subs = {}
    /\ page = NoPage
    /\ nav = <<>>
    /\ profiles = NoProfiles
    /\ onboarded = NoneOnboarded
    /\ items = {}
    /\ itemImages = {}
    /\ bucket = {}
    /\ req = NoRequest

\* the mount effect alone: initial load, session events, profile fetches,
\* cleanup and re-run of the effect
NextMount ==
    \/ Mount
    \/ Unmount
    \/ MountTick
    \/ \E p \in pending : \E r \in GetSessionResponses : InitSettle(p, r)
    \/ \E p \in pending : InitTimeout(p)
    \/ \E p \in pending : \E r \in GetSessionResponses : InitSessionSettle(p, r)
    \/ \E p \in pending : \E u \in GetUserResponses : InitUserSettle(p, u)
    \/ \E p \in Calls("getUserProfile") : \E r \in ProfileResponses(p) : ProfileSettle(p, r)
    \/ \E s \in ProviderSessions \cup {NULL} : SessionEvent(s)

SpecMount == InitMount /\ [][NextMount]_vars

\* the first implementation alone
InitMountFirst == InitMount /\ variant = "A"

NextMountFirst ==
    \/ Mount
    \/ Unmount
    \/ MountTick
    \/ \E p \in pending : \E r \in GetSessionResponses : InitSettle(p, r)
    \/ \E p \in pending : InitTimeout(p)
    \/ \E p \in Calls("getUserProfile") : \E r \in ProfileResponses(p) : ProfileSettle(p, r)
    \/ \E s \in ProviderSessions \cup {NULL} : SessionEvent(s)

\* time advances and a timer that is due fires
SpecMountFirst ==
    /\ InitMountFirst
    /\ [][NextMountFirst]_vars
    /\ WF_vars(MountTick)
    /\ WF_vars(\E p \in pending : InitTimeout(p))

\* the inputs of the operations run on the mounted provider
SessionLoginInputs == { <<EmailA, GoodPassword>> }

SessionSignUpInputs == { <<EmailA, GoodPassword, FullName>> }

\* one mount of the provider: initial load, session events, login, signUp and
\* logout in any order
NextSession ==
    \/ Mount
    \/ MountTick
    \/ \E p \in pending : \E r \in GetSessionResponses : InitSettle(p, r)
    \/ \E p \in pending : InitTimeout(p)
    \/ \E p \in pending : \E r \in GetSessionResponses : InitSessionSettle(p, r)
    \/ \E p \in pending : \E u \in GetUserResponses : InitUserSettle(p, u)
    \/ \E p \in Calls("getUserProfile") : \E r \in ProfileResponses(p) : ProfileSettle(p, r)
    \/ \E s \in ProviderSessions \cup {NULL} : SessionEvent(s)
    \/ \E in \in SessionLoginInputs : mounted /\ LoginStart(in[1], in[2])
    \/ \E p \in Calls("login") : \E r \in LoginResponses(p) : LoginSettle(p, r)
    \/ \E in \in SessionSignUpInputs : mounted /\ SignUpStart(in[1], in[2], in[3])
    \/ \E p \in Calls("signUp") : \E r \in SignUpResponses : SignUpSettle(p, r)
    \/ mounted /\ LogoutStart
    \/ \E p \in Calls("logout") : \E r \in SignOutResponses : LogoutSettle(p, r)

SpecSession == InitMount /\ [][NextSession]_vars

----------------------------------------------------------------------------
(* Claims about the mounted provider *)

\* a credential that is there: neither null nor the empty string
Present(token) == token # NullToken /\ token # ""

\* C11: in every state reached by initial load, session events, login, signUp
\* and logout in any order, a non-null Session has a non-null user if and only
\* if its access credential is present, and a Session whose user is null has
\* null access and refresh credentials.
C11_SessionUserIffCredential ==
    session # NULL =>
        /\ (session.user # NULL) <=> Present(session.accessToken)
        /\ session.user = NULL =>
              (session.accessToken = NullToken /\ session.refreshToken = NullToken)

\* C11 witness: a session-changed event has just been applied, and the Session
\* has a user, an access credential and no refresh credential.
C11_Witness ==
    /\ last.op = "event"
    /\ last.applied = 1
    /\ session # NULL
    /\ session.user # NULL
    /\ session.user = user
    /\ Present(session.accessToken)
    /\ session.refreshToken = NullToken
    /\ ~Has(store, EmailA)
    /\ error = NULL
    /\ ~loading

\* the provider is mounted and the initializeAuth of this mount is waiting for
\* the session fetch
InitWaiting == mounted /\ \E p \in Calls("init") : p.epoch = epoch

\* C17: while the provider stays mounted, the loading flag becomes false after
\* the mount even if the session fetch never answers; no session fetch is
\* awaited past its 3 second deadline, and the initializeAuth that timed out
\* sets User and Session to null and loading to false.
C17_LoadingEndsAfterTimeout ==
    /\ InitWaiting ~> (~loading \/ ~mounted)
    /\ [](\A p \in Calls("init") : now <= p.deadline)
    /\ [][(last'.op = "init" /\ last'.timedOut /\ mounted /\ last'.epoch = epoch) =>
            /\ now >= SESSION_CHECK_TIMEOUT_MS
            /\ user' = NULL
            /\ session' = NULL
            /\ loading' = FALSE]_vars

\* C17 witness: the timer of the mounted provider has just fired, the session
\* fetch has not answered, and loading is false with no User and no Session.
C17_Witness ==
    /\ last.op = "init"
    /\ last.timedOut
    /\ mounted
    /\ last.epoch = epoch
    /\ now >= SESSION_CHECK_TIMEOUT_MS
    /\ ~loading
    /\ user = NULL
    /\ session = NULL

\* C18: a mounted provider has exactly one active subscription, its own; an
\* unmounted one has none; and a session-changed event is delivered to, and
\* applied by, at most one callback.
C18_OneSubscription ==
    /\ Cardinality(subs) <= 1
    /\ mounted => subs = {epoch}
    /\ ~mounted => subs = {}
    /\ last.op = "event" => (last.delivered = 1 /\ last.applied <= 1)

\* C18 witness: the effect has run a second time after its cleanup, and an
\* event has just been applied once.
C18_Witness ==
    /\ epoch = 2
    /\ mounted
    /\ subs = {2}
    /\ last.op = "event"
    /\ last.delivered = 1
    /\ last.applied = 1
    /\ user # NULL

----------------------------------------------------------------------------
(* onboardingService (lib/onboardingService.ts) over the users table *)

UserIds == {"u1", "u2"}

\* OnboardingData: what the onboarding form submits
OnboardingInputs ==
    { [displayName |-> "Al", bio |-> "", school |-> "MIT", program |-> "CS",
       profilePicture |-> "pic1", avatarType |-> "male", gender |-> "male"],
      [displayName |-> "Bo", bio |-> "hi", school |-> "CIT", program |-> "IT",
       profilePicture |-> "pic2", avatarType |-> "custom", gender |-> "null"] }

\* a row of the users table that some other writer (the signup) created: the
\* profile columns empty, the flag false
StubRow(id) ==
    [id |-> id, display_name |-> "", bio |-> "", school |-> "", program |-> "",
     avatar_url |-> "", onboarding_completed |-> FALSE, updated_at |-> 0, created_at |-> 0]

HasRow(pr, id) == id \in DOMAIN pr

\* HasCompletedOnboardingResult that takes any row for a completed onboarding
HasCompletedOnboardingAnyRow(pr, id, readOk) ==
    IF ~readOk THEN FALSE ELSE HasRow(pr, id)

\* hasCompletedOnboarding: `.single()` answers an error when there is no row
\* (or the read fails), and the function then returns false
HasCompletedOnboardingResult(pr, id, readOk) ==
    IF ~readOk \/ ~HasRow(pr, id) THEN FALSE ELSE pr[id].onboarding_completed

\* getUserProfile: the row, or null when there is none or the read fails
GetUserProfileResult(pr, id, readOk) ==
    IF ~readOk \/ ~HasRow(pr, id) THEN NULL ELSE pr[id]

\* ProfileData that leaves the completion flag out of the write
ProfileDataWithoutFlag(userId, data, t) ==
    [id |-> userId, display_name |-> data.displayName, bio |-> data.bio,
     school |-> data.school, program |-> data.program,
     avatar_url |-> data.profilePicture, onboarding_completed |-> FALSE,
     updated_at |-> t]

\* profileData: the columns completeOnboarding writes
ProfileData(userId, data, t) ==
    [id |-> userId, display_name |-> data.displayName, bio |-> data.bio,
     school |-> data.school, program |-> data.program,
     avatar_url |-> data.profilePicture, onboarding_completed |-> TRUE,
     updated_at |-> t]

\* UpdateRow that writes nothing
UpdateRowNothing(pr, id, cols) == pr

\* .update(profileData).eq("id", userId): the columns of the matching row are
\* overwritten, the others kept; no row, no change
UpdateRow(pr, id, cols) ==
    IF HasRow(pr, id)
    THEN [pr EXCEPT ![id] = [c \in DOMAIN pr[id] |-> IF c \in DOMAIN cols THEN cols[c] ELSE pr[id][c]]]
    ELSE pr

\* InsertRow that puts the new row in place of the table
InsertRowAlone(pr, id, cols, t) ==
    [k \in {id} |-> [c \in DOMAIN cols \cup {"created_at"} |->
                        IF c = "created_at" THEN t ELSE cols[c]]]

\* .insert([{...profileData, created_at}]): a new row
InsertRow(pr, id, cols, t) ==
    [k \in DOMAIN pr \cup {id} |->
        IF k = id THEN [c \in DOMAIN cols \cup {"created_at"} |->
                          IF c = "created_at" THEN t ELSE cols[c]]
        ELSE pr[k]]

\* what the store may answer to the write: done, an error with or without a
\* message, or the client throws; an insert of a row that exists is refused
WriteResponses(pr, p) ==
    { [kind |-> "error", message |-> m] : m \in {"permission denied", ""} }
    \cup { [kind |-> "throw", isError |-> b] : b \in BOOLEAN }
    \cup IF p.existing THEN { [kind |-> "ok"] }
         ELSE IF HasRow(pr, p.id) THEN { [kind |-> "error", message |-> "duplicate key"] }
         ELSE { [kind |-> "ok"] }

\* the error message completeOnboarding returns with success=false
FailureMessage(p, resp) ==
    IF resp.kind = "throw"
    THEN IF resp.isError THEN "Failed to fetch" ELSE "Unknown error occurred"
    ELSE IF resp.message # "" THEN resp.message
    ELSE IF p.existing THEN "Failed to update profile" ELSE "Failed to create profile"

\* completeOnboarding(userId, data) up to its getUserProfile call
CompleteStart(id, data) ==
    /\ id \in UserIds /\ data \in OnboardingInputs
    /\ Cardinality(pending) < MaxInFlight
    /\ \A p \in pending : ~(p.op = "completeOnboarding" /\ p.id = id /\ p.data = data)
    /\ pending' = pending \cup {[op |-> "completeOnboarding", id |-> id, data |-> data,
                                 stage |-> "read", existing |-> FALSE]}
    /\ last' = None
    /\ UNCHANGED <<store, lockouts, config, now, nextSweep, variant, user, session, loading,
                   error, solo, mountVars, pageVars, dbVars, apiVars>>

\* CompleteRead that takes every profile for a new one
CompleteReadAssumingNew(p, readOk) ==
    /\ p \in pending /\ p.op = "completeOnboarding" /\ p.stage = "read"
    /\ readOk \in BOOLEAN
    /\ pending' = (pending \ {p}) \cup {[p EXCEPT !.stage = "write", !.existing = FALSE]}
    /\ last' = None
    /\ UNCHANGED <<store, lockouts, config, now, nextSweep, variant, user, session, loading,
                   error, solo, mountVars, pageVars, dbVars, apiVars>>

\* completeOnboarding: getUserProfile answered, the write is sent
CompleteRead(p, readOk) ==
    /\ p \in pending /\ p.op = "completeOnboarding" /\ p.stage = "read"
    /\ readOk \in BOOLEAN
    /\ pending' = (pending \ {p}) \cup
          {[p EXCEPT !.stage = "write",
                     !.existing = GetUserProfileResult(profiles, p.id, readOk) # NULL]}
    /\ last' = None
    /\ UNCHANGED <<store, lockouts, config, now, nextSweep, variant, user, session, loading,
                   error, solo, mountVars, pageVars, dbVars, apiVars>>

\* completeOnboarding: the write answered, the function returns
CompleteWrite(p, resp) ==
    /\ p \in pending /\ p.op = "completeOnboarding" /\ p.stage = "write"
    /\ resp \in WriteResponses(profiles, p)
    /\ pending' = pending \ {p}
    /\ IF resp.kind = "ok"
       THEN /\ profiles' = IF p.existing
                           THEN UpdateRow(profiles, p.id, ProfileData(p.id, p.data, now))
                           ELSE InsertRow(profiles, p.id, ProfileData(p.id, p.data, now), now)
            /\ onboarded' = [k \in DOMAIN onboarded \cup {p.id} |->
                               IF k = p.id THEN p.data ELSE onboarded[k]]
            /\ last' = [op |-> "completeOnboarding", id |-> p.id, data |-> p.data,
                        success |-> TRUE, error |-> "", before |-> profiles,
                        path |-> IF p.existing THEN "update" ELSE "insert"]
       ELSE /\ UNCHANGED <<profiles, onboarded>>
            /\ last' = [op |-> "completeOnboarding", id |-> p.id, data |-> p.data,
                        success |-> FALSE, error |-> FailureMessage(p, resp),
                        before |-> profiles,
                        path |-> IF p.existing THEN "update" ELSE "insert"]
    /\ UNCHANGED <<store, lockouts, config, now, nextSweep, variant, user, session, loading,
                   error, solo, mountVars, pageVars, apiVars>>

\* hasCompletedOnboarding(userId)
HasCompletedOnboarding(id, readOk) ==
    /\ id \in UserIds /\ readOk \in BOOLEAN
    /\ last' = [op |-> "hasCompletedOnboarding", id |-> id, readOk |-> readOk,
                result |-> HasCompletedOnboardingResult(profiles, id, readOk)]
    /\ UNCHANGED <<store, lockouts, config, now, nextSweep, variant, user, session, loading,
                   error, pending, solo, mountVars, appVars>>

\* getUserProfile(userId)
GetUserProfile(id, readOk) ==
    /\ id \in UserIds /\ readOk \in BOOLEAN
    /\ last' = [op |-> "getUserProfile", id |-> id, readOk |-> readOk,
                result |-> GetUserProfileResult(profiles, id, readOk)]
    /\ UNCHANGED <<store, lockouts, config, now, nextSweep, variant, user, session, loading,
                   error, pending, solo, mountVars, appVars>>

\* the service alone: the users table is empty, or holds a row for u1 that the
\* onboarding has not completed
InitOnboarding ==
    /\ store = EmptyStore
    /\ config = DEFAULT_CONFIG
    /\ now \in {0, MountTickMs}
    /\ nextSweep = CLEANUP_INTERVAL_MS
    /\ lockouts = NoLockouts
    /\ last = None
    /\ variant = "A"
    /\ user = NULL
    /\ session = NULL
    /\ loading = TRUE
    /\ error = NULL
    /\ pending = {}
    /\ solo = NoSolo
    /\ mounted = FALSE
    /\ epoch = 0
    /\ subs = {}
    /\ page = NoPage
    /\ nav = <<>>
    /\ profiles \in { NoProfiles, [id \in {"u1"} |-> StubRow(id)] }
    /\ onboarded = NoneOnboarded
    /\ items = {}
    /\ itemImages = {}
    /\ bucket = {}
    /\ req = NoRequest

NextOnboarding ==
    \/ \E id \in UserIds : \E data \in OnboardingInputs : CompleteStart(id, data)
    \/ \E p \in Calls("completeOnboarding") : \E ok \in BOOLEAN : CompleteRead(p, ok)
    \/ \E p \in Calls("completeOnboarding") :
          \E r \in WriteResponses(profiles, p) : CompleteWrite(p, r)
    \/ \E id \in UserIds : \E ok \in BOOLEAN : HasCompletedOnboarding(id, ok)
    \/ \E id \in UserIds : \E ok \in BOOLEAN : GetUserProfile(id, ok)

SpecOnboarding == InitOnboarding /\ [][NextOnboarding]_vars

----------------------------------------------------------------------------
(* Claims about the onboarding service, checked under SpecOnboarding *)

\* C14: hasCompletedOnboarding(u) returns false while the users table has no
\* row for u and whenever the read fails, and returns true only if a
\* completeOnboarding for that same id has returned success before.
C14_CompletedOnlyAfterSuccess ==
    last.op = "hasCompletedOnboarding" =>
        /\ (~HasRow(profiles, last.id) \/ ~last.readOk) => ~last.result
        /\ last.result => last.id \in DOMAIN onboarded

\* C14 witness: hasCompletedOnboarding("u1") has just returned true, after a
\* completeOnboarding("u1", ...) that succeeded; u2 has no row.
C14_Witness ==
    /\ last.op = "hasCompletedOnboarding"
    /\ last.id = "u1"
    /\ last.result
    /\ "u1" \in DOMAIN onboarded
    /\ ~HasRow(profiles, "u2")

\* C14 witness, the other id: completeOnboarding succeeded for u2 only, and
\* hasCompletedOnboarding("u1") has just read u1's row and returned false.
C14_WitnessOtherId ==
    /\ last.op = "hasCompletedOnboarding"
    /\ last.id = "u1"
    /\ last.readOk
    /\ HasRow(profiles, "u1")
    /\ ~last.result
    /\ DOMAIN onboarded = {"u2"}

\* the step is the return of a completeOnboarding call
CompleteReturned == last'.op = "completeOnboarding" /\ pending' # pending

\* the five profile columns of row hold the data's five profile fields
HoldsData(row, data) ==
    /\ row.display_name = data.displayName
    /\ row.bio = data.bio
    /\ row.school = data.school
    /\ row.program = data.program
    /\ row.avatar_url = data.profilePicture

C15_WitnessSuccess ==
    /\ last.op = "completeOnboarding"
    /\ last.success
    /\ last.path = "insert"
    /\ last.id = "u2"
    /\ ~HasRow(last.before, "u2")
    /\ profiles["u2"].onboarding_completed
    /\ HoldsData(profiles["u2"], last.data)

\* the column of the users table a field of OnboardingData would be stored in
Column(field) ==
    CASE field = "displayName" -> "display_name"
      [] field = "profilePicture" -> "avatar_url"
      [] field = "avatarType" -> "avatar_type"
      [] OTHER -> field

\* getUserProfile(u) has just returned what it read, after a completeOnboarding
\* for u that succeeded
ReadAfterCompletion ==
    /\ last.op = "getUserProfile"
    /\ last.readOk
    /\ last.id \in DOMAIN onboarded

\* C16 (the claim): getUserProfile(u) after a successful completeOnboarding(u,
\* fields) returns a record in which every field passed in is found, equal,
\* under its column name, with onboarding_completed = true.
C16_RoundTripAllFields ==
    ReadAfterCompletion =>
        /\ last.result # NULL
        /\ last.result.onboarding_completed
        /\ \A f \in DOMAIN onboarded[last.id] :
              /\ Column(f) \in DOMAIN last.result
              /\ last.result[Column(f)] = onboarded[last.id][f]

\* C16 (amended): getUserProfile(u) after a successful completeOnboarding(u,
\* fields) returns the row of u with display_name, bio, school, program and
\* avatar_url equal to displayName, bio, school, program and profilePicture of
\* the last successful call, id = u and onboarding_completed = true, on the
\* insert path and on the update path; avatarType and gender are in no column.
C16_RoundTripStoredFields ==
    ReadAfterCompletion =>
        /\ last.result # NULL
        /\ last.result.id = last.id
        /\ last.result.onboarding_completed
        /\ HoldsData(last.result, onboarded[last.id])
        /\ "avatar_type" \notin DOMAIN last.result
        /\ "gender" \notin DOMAIN last.result

\* C16 witness: u1's row existed and was updated; getUserProfile("u1") has just
\* returned it with the submitted data.
C16_Witness ==
    /\ ReadAfterCompletion
    /\ last.id = "u1"
    /\ last.result # NULL
    /\ last.result.display_name = "Bo"
    /\ last.result.avatar_url = "pic2"
    /\ last.result.created_at = 0
    /\ last.result.updated_at = MountTickMs
    /\ onboarded["u1"].gender = "null"

\* C16 witness, the insert path: u2 had no row.
C16_WitnessInsert ==
    /\ ReadAfterCompletion
    /\ last.id = "u2"
    /\ last.result # NULL
    /\ last.result.display_name = "Al"
    /\ last.result.created_at = MountTickMs

----------------------------------------------------------------------------
(* POST /api/listings (app/api/listings/route.ts): each await of the handler *)
(* is a step; requests are handled one after the other                       *)

\* requests handled in a run
MaxRequests == 2

\* images attached to a request: 0..MaxImages
MaxImages == 2

\* the Authorization header: absent, a bearer token the provider refuses, one
\* it accepts (the token of u1)
Headers == {"none", "Bearer bad", "Bearer good"}

\* the form: all six required fields there, or one missing
Forms == {"complete", "missing"}

\* the answers of a call to the provider, the tables or the storage
CallResponses == {"ok", "error", "throw"}

\* !authHeader?.startsWith("Bearer ")
NoBearer(header) == header = "none"

\* supabase.auth.getUser(): a user only for the accepted token
VerifiedUser(header, resp) ==
    IF resp = "ok" /\ header = "Bearer good" THEN "u1" ELSE "null"

\* userError || !userData?.school
NoSchool(pr, id, resp) ==
    resp # "ok" \/ ~HasRow(pr, id) \/ pr[id].school = ""

\* InvalidForm that forgets the images
InvalidFormIgnoringImages(r) == r.form = "missing"

\* the two validations of the parsed form: a required field missing, no image
InvalidForm(r) == r.form = "missing" \/ r.images = 0

\* .delete().eq("id", itemData.id): the row is gone if the store did it; the
\* handler does not look at the answer
Rolledback(its, id, resp) == IF resp = "ok" THEN its \ {id} ELSE its

\* the handler answers
Answer(status) ==
    /\ req' = [req EXCEPT !.pos = "done", !.status = status]
    /\ last' = [op |-> "POST /api/listings", status |-> status]

\* the handler goes on to its next await
Goto(pos) ==
    /\ req' = [req EXCEPT !.pos = pos]
    /\ last' = None

\* a request arrives: the header is checked, getUser() is called
PostListings(header, form, images) ==
    /\ req.pos \in {"idle", "done"}
    /\ req.n < MaxRequests
    /\ header \in Headers /\ form \in Forms /\ images \in 0..MaxImages
    /\ LET r == [pos |-> "getUser", n |-> req.n + 1, header |-> header, form |-> form,
                 images |-> images, uploaded |-> 0, item |-> 0, status |-> 0]
       IN  IF NoBearer(header)
           THEN /\ req' = [r EXCEPT !.pos = "done", !.status = 401]
                /\ last' = [op |-> "POST /api/listings", status |-> 401]
           ELSE /\ req' = r
                /\ last' = None
    /\ UNCHANGED <<store, lockouts, config, now, nextSweep, variant, user, session, loading,
                   error, pending, solo, mountVars, pageVars, dbVars, items, itemImages, bucket>>

\* getUser() answered
VerifyUser(resp) ==
    /\ req.pos = "getUser"
    /\ resp \in CallResponses
    /\ IF resp = "throw" THEN Answer(500)
       ELSE IF VerifiedUser(req.header, resp) = "null" THEN Answer(401)
       ELSE Goto("school")
    /\ UNCHANGED <<store, lockouts, config, now, nextSweep, variant, user, session, loading,
                   error, pending, solo, mountVars, pageVars, dbVars, items, itemImages, bucket>>

\* the school of the user was read; the form is parsed and validated
ReadSchool(resp) ==
    /\ req.pos = "school"
    /\ resp \in CallResponses
    /\ IF resp = "throw" THEN Answer(500)
       ELSE IF NoSchool(profiles, "u1", resp) THEN Answer(400)
       ELSE IF InvalidForm(req) THEN Answer(400)
       ELSE IF req.images = 0 THEN Goto("category")
       ELSE Goto("upload")
    /\ UNCHANGED <<store, lockouts, config, now, nextSweep, variant, user, session, loading,
                   error, pending, solo, mountVars, pageVars, dbVars, items, itemImages, bucket>>

\* the upload of the next image answered
Upload(resp) ==
    /\ req.pos = "upload"
    /\ resp \in CallResponses
    /\ IF resp = "ok"
       THEN /\ bucket' = bucket \cup {<<req.n, req.uploaded + 1>>}
            /\ req' = [req EXCEPT !.uploaded = req.uploaded + 1,
                                  !.pos = IF req.uploaded + 1 = req.images
                                          THEN "category" ELSE "upload"]
            /\ last' = None
       ELSE /\ Answer(500)
            /\ UNCHANGED bucket
    /\ UNCHANGED <<store, lockouts, config, now, nextSweep, variant, user, session, loading,
                   error, pending, solo, mountVars, pageVars, dbVars, items, itemImages>>

\* the category lookup answered
LookupCategory(resp) ==
    /\ req.pos = "category"
    /\ resp \in CallResponses
    /\ IF resp = "ok" THEN Goto("item") ELSE Answer(500)
    /\ UNCHANGED <<store, lockouts, config, now, nextSweep, variant, user, session, loading,
                   error, pending, solo, mountVars, pageVars, dbVars, items, itemImages, bucket>>

\* the insert of the item row answered
InsertItem(resp) ==
    /\ req.pos = "item"
    /\ resp \in CallResponses
    /\ IF resp = "ok"
       THEN /\ items' = items \cup {req.n}
            /\ req' = [req EXCEPT !.item = req.n, !.pos = "images"]
            /\ last' = None
       ELSE /\ Answer(500)
            /\ UNCHANGED items
    /\ UNCHANGED <<store, lockouts, config, now, nextSweep, variant, user, session, loading,
                   error, pending, solo, mountVars, pageVars, dbVars, itemImages, bucket>>

\* the insert of the item_images rows answered
InsertImages(resp) ==
    /\ req.pos = "images"
    /\ resp \in CallResponses
    /\ IF resp = "ok"
       THEN /\ itemImages' = itemImages \cup {<<req.item, k>> : k \in 1..req.uploaded}
            /\ Answer(200)
       ELSE IF resp = "error"
       THEN /\ Goto("rollback")
            /\ UNCHANGED itemImages
       ELSE /\ Answer(500)
            /\ UNCHANGED itemImages
    /\ UNCHANGED <<store, lockouts, config, now, nextSweep, variant, user, session, loading,
                   error, pending, solo, mountVars, pageVars, dbVars, items, bucket>>

\* the compensating delete answered; "Failed to save images" is thrown
Rollback(resp) ==
    /\ req.pos = "rollback"
    /\ resp \in CallResponses
    /\ items' = Rolledback(items, req.item, resp)
    /\ Answer(500)
    /\ UNCHANGED <<store, lockouts, config, now, nextSweep, variant, user, session, loading,
                   error, pending, solo, mountVars, pageVars, dbVars, itemImages, bucket>>

\* the profile of u1 with a school
SchoolRow(id) == [StubRow(id) EXCEPT !.school = "MIT", !.onboarding_completed = TRUE]

\* the route before its first request; u1 has a profile, with or without a school
InitListings ==
    /\ store = EmptyStore
    /\ config = DEFAULT_CONFIG
    /\ now = 0
    /\ nextSweep = CLEANUP_INTERVAL_MS
    /\ lockouts = NoLockouts
    /\ last = None
    /\ variant = "A"
    /\ user = NULL
    /\ session = NULL
    /\ loading = TRUE
    /\ error = NULL
    /\ pending = {}
    /\ solo = NoSolo
    /\ mounted = FALSE
    /\ epoch = 0
    /\ subs = {}
    /\ page = NoPage
    /\ nav = <<>>
    /\ profiles \in { [id \in {"u1"} |-> SchoolRow(id)], [id \in {"u1"} |-> StubRow(id)] }
    /\ onboarded = NoneOnboarded
    /\ items = {}
    /\ itemImages = {}
    /\ bucket = {}
    /\ req = NoRequest

NextListings ==
    \/ \E h \in Headers : \E f \in Forms : \E i \in 0..MaxImages : PostListings(h, f, i)
    \/ \E r \in CallResponses : VerifyUser(r)
    \/ \E r \in CallResponses : ReadSchool(r)
    \/ \E r \in CallResponses : Upload(r)
    \/ \E r \in CallResponses : LookupCategory(r)
    \/ \E r \in CallResponses : InsertItem(r)
    \/ \E r \in CallResponses : InsertImages(r)
    \/ \E r \in CallResponses : Rollback(r)

SpecListings == InitListings /\ [][NextListings]_vars

----------------------------------------------------------------------------
(* Claims about POST /api/listings, checked under SpecListings *)

\* C19: after any error answer of POST /api/listings, no item row created by
\* that request remains in the items table.
C19_NoItemAfterError ==
    (req.pos = "done" /\ req.status # 200) => req.n \notin items

\* the step writes to the bucket or to a table
Writes == bucket' # bucket \/ items' # items \/ itemImages' # itemImages

\* C20: a request answered with 401 or 400 has uploaded nothing and inserted
\* nothing; every write is made for a request whose token was verified, whose
\* user has a school, whose required fields are all there and which has an
\* image; and the item row is inserted only after every image was uploaded.
C20_ChecksBeforeWrites ==
    /\ []((req.pos = "done" /\ req.status \in {400, 401}) =>
            /\ req.uploaded = 0
            /\ req.item = 0
            /\ req.n \notin items
            /\ \A o \in bucket : o[1] # req.n
            /\ \A i \in itemImages : i[1] # req.n)
    /\ []((req.pos = "done" /\ req.header # "Bearer good") => req.status \in {401, 500})
    /\ [][Writes =>
            /\ req.header = "Bearer good"
            /\ ~NoSchool(profiles, "u1", "ok")
            /\ req.form = "complete"
            /\ req.images >= 1]_vars
    /\ [][items' # items /\ req.n \in items' =>
            /\ req.uploaded = req.images
            /\ \A k \in 1..req.images : <<req.n, k>> \in bucket]_vars

\* C20 witness: after a listing was created with two images, a second request
\* with a verified token and all fields but no image has been answered 400.
C20_Witness ==
    /\ req.pos = "done"
    /\ req.status = 400
    /\ req.n = 2
    /\ req.header = "Bearer good"
    /\ req.form = "complete"
    /\ req.images = 0
    /\ items = {1}
    /\ bucket = {<<1, 1>>, <<1, 2>>}
    /\ itemImages = {<<1, 1>>, <<1, 2>>}

\* C20 witness, the 401: a request with a refused token has been answered 401.
C20_WitnessUnauthorized ==
    /\ req.pos = "done"
    /\ req.status = 401
    /\ req.header = "Bearer bad"
    /\ req.images = 2
    /\ bucket = {}
    /\ items = {}

----------------------------------------------------------------------------
(* The pages that route on the onboarding gate: the OAuth callback page      *)
(* (app/auth/callback/callback-content.tsx), the onboarding page (its gate   *)
(* effect) and Home at "/"                                                   *)

\* router.push is called at most MaxPushes times in a run
MaxPushes == 2

Routes == {"/auth/callback", "/onboarding", "/"}

\* user.id, for the dependency lists and the records of pushes
IdOf(u) == IF u = NULL THEN "null" ELSE u.id

\* the page as its first render leaves it: useState(true) for
\* exchangingSession on the callback page (the other pages exchange nothing),
\* useState(true) for checkingOnboarding
OpenedPage(route) ==
    [route |-> route, exchanging |-> route = "/auth/callback", checking |-> TRUE,
     timer |-> FALSE, deps |-> <<route = "/auth/callback", loading, IdOf(user)>>,
     queried |-> {}]

\* the dependencies of the gate effect as the current render sees them
Deps == <<page.exchanging, loading, IdOf(user)>>

\* Waiting that looks at the session exchange alone
WaitingForExchangeOnly(exchanging, authLoading) == exchanging

\* `if (exchangingSession || authLoading) return` (on the onboarding page:
\* `if (authLoading) return`, exchanging is false there)
Waiting(exchanging, authLoading) == exchanging \/ authLoading

\* `if (completed) router.push("/home") else router.push("/onboarding")`
Destination(completed) == IF completed THEN "/home" ELSE "/onboarding"

\* what a router.push is remembered by: the target, the code that pushed, and
\* what that code saw when it decided
Push(to, by, exchanging, authLoading, id, queried, completed) ==
    [to |-> to, by |-> by, exchanging |-> exchanging, loading |-> authLoading,
     id |-> id, queried |-> queried, completed |-> completed]

\* the call of hasCompletedOnboarding(user.id) an effect suspends on
GateCheck ==
    [op |-> "hasCompletedOnboarding", id |-> IdOf(user), by |-> page.route,
     exchanging |-> page.exchanging, loading |-> loading]

\* a page is opened: it renders, and its effects run for the first time (the
\* callback page calls getSession(); the gate effect sees what the first
\* render saw)
OpenPage(route) ==
    /\ page = NoPage
    /\ mounted
    /\ route \in Routes
    /\ page' = OpenedPage(route)
    /\ last' = None
    /\ IF route = "/auth/callback"
       THEN /\ pending' = pending \cup {[op |-> "exchange"]}
            /\ UNCHANGED nav
       ELSE IF route = "/onboarding" /\ ~Waiting(FALSE, loading)
       THEN IF user = NULL
            THEN /\ nav' = Append(nav, Push("/", route, FALSE, loading, "null", FALSE, FALSE))
                 /\ UNCHANGED pending
            ELSE /\ pending' = pending \cup
                                 {[op |-> "hasCompletedOnboarding", id |-> IdOf(user),
                                   by |-> route, exchanging |-> FALSE, loading |-> loading]}
                 /\ UNCHANGED nav
       ELSE UNCHANGED <<pending, nav>>
    /\ UNCHANGED <<store, lockouts, config, now, nextSweep, variant, user, session, loading,
                   error, solo, mountVars, dbVars, apiVars>>

\* handleOAuthCallback resumes: exchangingSession becomes false; on an error
\* or an exception the one-second timer that pushes "/" is started
ExchangeSettle(resp) ==
    /\ page.route = "/auth/callback"
    /\ [op |-> "exchange"] \in pending
    /\ resp \in {"session", "null", "error", "throw"}
    /\ pending' = pending \ {[op |-> "exchange"]}
    /\ page' = [page EXCEPT !.exchanging = FALSE, !.timer = resp \in {"error", "throw"}]
    /\ last' = None
    /\ UNCHANGED <<store, lockouts, config, now, nextSweep, variant, user, session, loading,
                   error, solo, mountVars, nav, dbVars, apiVars>>

\* the timer of handleOAuthCallback fires: router.push("/")
RedirectTimer ==
    /\ page.route = "/auth/callback"
    /\ page.timer
    /\ Len(nav) < MaxPushes
    /\ page' = [page EXCEPT !.timer = FALSE]
    /\ nav' = Append(nav, Push("/", "exchange", page.exchanging, loading, IdOf(user),
                               FALSE, FALSE))
    /\ last' = None
    /\ UNCHANGED <<store, lockouts, config, now, nextSweep, variant, user, session, loading,
                   error, pending, solo, mountVars, dbVars, apiVars>>

\* a dependency of the gate effect changed: checkOnboardingAndRedirect /
\* checkOnboardingStatus runs up to its await
GateEffect ==
    /\ page.route \in {"/auth/callback", "/onboarding"}
    /\ Deps # page.deps
    /\ Len(nav) < MaxPushes
    /\ last' = None
    /\ IF Waiting(page.exchanging, loading)
       THEN /\ page' = [page EXCEPT !.deps = Deps]
            /\ UNCHANGED <<nav, pending>>
       ELSE IF user = NULL
       THEN /\ page' = [page EXCEPT !.deps = Deps]
            /\ nav' = Append(nav, Push("/", page.route, page.exchanging, loading, "null",
                                       FALSE, FALSE))
            /\ UNCHANGED pending
       ELSE /\ page' = [page EXCEPT !.deps = Deps, !.queried = page.queried \cup {IdOf(user)}]
            /\ pending' = pending \cup {GateCheck}
            /\ UNCHANGED nav
    /\ UNCHANGED <<store, lockouts, config, now, nextSweep, variant, user, session, loading,
                   error, solo, mountVars, dbVars, apiVars>>

\* hasCompletedOnboarding answered: checkingOnboarding becomes false, the
\* callback page pushes "/home" or "/onboarding", the onboarding page pushes
\* "/home" or stays
GateSettle(p, readOk) ==
    /\ p \in pending /\ p.op = "hasCompletedOnboarding"
    /\ readOk \in BOOLEAN
    /\ Len(nav) < MaxPushes
    /\ pending' = pending \ {p}
    /\ page' = [page EXCEPT !.checking = FALSE]
    /\ last' = [op |-> "hasCompletedOnboarding", id |-> p.id, readOk |-> readOk,
                result |-> HasCompletedOnboardingResult(profiles, p.id, readOk)]
    /\ LET completed == HasCompletedOnboardingResult(profiles, p.id, readOk)
       IN  IF p.by = "/onboarding" /\ ~completed
           THEN UNCHANGED nav
           ELSE nav' = Append(nav, Push(Destination(completed), p.by, p.exchanging,
                                        p.loading, p.id, TRUE, completed))
    /\ UNCHANGED <<store, lockouts, config, now, nextSweep, variant, user, session, loading,
                   error, solo, mountVars, dbVars, apiVars>>

\* what Home renders at "/"
HomeView ==
    IF ~loading /\ user # NULL THEN "welcome"
    ELSE IF loading THEN "spinner"
    ELSE "landing"

\* the provider and the users table before a page is opened: u1 has no row,
\* a row with the flag false, or a row with the flag true
InitPages ==
    /\ store = EmptyStore
    /\ config = DEFAULT_CONFIG
    /\ now = 0
    /\ nextSweep = CLEANUP_INTERVAL_MS
    /\ lockouts = NoLockouts
    /\ last = None
    /\ variant \in {"A", "B"}
    /\ user = NULL
    /\ session = NULL
    /\ loading = TRUE
    /\ error = NULL
    /\ pending = {}
    /\ solo = NoSolo
    /\ mounted = FALSE
    /\ epoch = 0
    /\ subs = {}
    /\ page = NoPage
    /\ nav = <<>>
    /\ profiles \in { NoProfiles, [id \in {"u1"} |-> StubRow(id)],
                      [id \in {"u1"} |-> SchoolRow(id)] }
    /\ onboarded = NoneOnboarded
    /\ items = {}
    /\ itemImages = {}
    /\ bucket = {}
    /\ req = NoRequest

\* one load of the application on one of the pages
NextPages ==
    \/ Mount
    \/ \E p \in pending : \E r \in GetSessionResponses : InitSettle(p, r)
    \/ \E p \in pending : \E r \in GetSessionResponses : InitSessionSettle(p, r)
    \/ \E p \in pending : \E u \in GetUserResponses : InitUserSettle(p, u)
    \/ \E p \in Calls("getUserProfile") : \E r \in ProfileResponses(p) : ProfileSettle(p, r)
    \/ \E s \in ProviderSessions \cup {NULL} : SessionEvent(s)
    \/ \E in \in SessionLoginInputs : page.route = "/" /\ LoginStart(in[1], in[2])
    \/ \E p \in Calls("login") : \E r \in LoginResponses(p) : LoginSettle(p, r)
    \/ \E r \in Routes : OpenPage(r)
    \/ \E r \in {"session", "null", "error", "throw"} : ExchangeSettle(r)
    \/ RedirectTimer
    \/ GateEffect
    \/ \E p \in Calls("hasCompletedOnboarding") : \E ok \in BOOLEAN : GateSettle(p, ok)

SpecPages == InitPages /\ [][NextPages]_vars

----------------------------------------------------------------------------
(* Claims about the routing on the onboarding gate, checked under SpecPages *)

\* the pushes made so far
Pushes == {nav[i] : i \in 1..Len(nav)}

\* the users table holds a row for id with the flag set
PersistedCompleted(id) == HasRow(profiles, id) /\ profiles[id].onboarding_completed

\* the three-way rule of checkOnboardingAndRedirect for a push n
GateRule(n) ==
    /\ ~n.exchanging
    /\ ~n.loading
    /\ n.id = "null" => n.to = "/"
    /\ (n.id # "null" /\ n.queried /\ n.completed) => n.to = "/home"
    /\ (n.id # "null" /\ ~(n.queried /\ n.completed)) => n.to = "/onboarding"
    /\ n.to = "/home" => (n.queried /\ n.completed /\ PersistedCompleted(n.id))

C12_WitnessCheckFailed ==
    /\ page.route = "/auth/callback"
    /\ PersistedCompleted("u1")
    /\ last = [op |-> "hasCompletedOnboarding", id |-> "u1", readOk |-> FALSE,
               result |-> FALSE]
    /\ nav # <<>>
    /\ nav[Len(nav)].to = "/onboarding"
    /\ nav[Len(nav)].by = "/auth/callback"

\* C12 witness, the failed exchange: the timer has pushed "/" while the
\* provider was still loading.
C12_WitnessExchangeFailed ==
    /\ page.route = "/auth/callback"
    /\ \E n \in Pushes : n.by = "exchange" /\ n.to = "/" /\ n.loading

\* C13: whenever an authenticated user is shown the application,
\* hasCompletedOnboarding has been queried for that user since the page was
\* loaded (password login and session restored on load, at "/").
C13_GateQueriedBeforeApp ==
    (page.route = "/" /\ HomeView = "welcome") => IdOf(user) \in page.queried

----------------------------------------------------------------------------
(* Claims about the errors and the loading flag of the operations, checked *)
(* under Spec                                                              *)

\* enum AuthErrorCode
AuthErrorCodes ==
    {"INVALID_CREDENTIALS", "USER_NOT_FOUND", "USER_ALREADY_EXISTS", "WEAK_PASSWORD",
     "INVALID_EMAIL", "RATE_LIMIT_EXCEEDED", "SESSION_EXPIRED", "NETWORK_ERROR",
     "UNKNOWN_ERROR"}

\* the last step settled an operation, which rejected
Rejected == "rejected" \in DOMAIN last /\ last.op \in Operations /\ last.rejected

----------------------------------------------------------------------------
(* Further claims about the onboarding service, checked under SpecOnboarding *)

\* the rows whose onboarding_completed flag is set
Completed(pr) == {id \in DOMAIN pr : pr[id].onboarding_completed}

\* C22: the persisted onboarding_completed flag of a user never goes from
\* true to false (nor does the row disappear); the table changes only when a
\* completeOnboarding call returns success, and then only the row of that
\* call's user, whose flag is true afterwards.
C22_FlagNeverReverts ==
    [][/\ Completed(profiles) \subseteq Completed(profiles')
       /\ profiles' # profiles =>
            /\ CompleteReturned
            /\ last'.success
            /\ last'.id \in Completed(profiles')
            /\ \A id \in DOMAIN profiles \ {last'.id} :
                  id \in DOMAIN profiles' /\ profiles'[id] = profiles[id]]_vars

\* C22 witness: u2 has completed onboarding, and a second completeOnboarding
\* for u1, whose flag was already true, has just overwritten u1's row with
\* other data; both flags are true.
C22_Witness ==
    /\ last.op = "completeOnboarding"
    /\ last.success
    /\ last.id = "u1"
    /\ last.path = "update"
    /\ "u1" \in Completed(last.before)
    /\ last.before["u1"].display_name # profiles["u1"].display_name
    /\ Completed(profiles) = {"u1", "u2"}

----------------------------------------------------------------------------
(* validatePassword as a function of its argument *)

\* the passwords tried have at most MaxPasswordLen characters
MaxPasswordLen == 8

\* one character of each class the rules tell apart: an uppercase letter, a
\* lowercase letter, a digit, none of the three
PasswordAlphabet == {"A", "a", "1", "-"}

\* every string over PasswordAlphabet up to the bound, and the passwords of
\* the documentation
Passwords ==
    UNION { [1..n -> PasswordAlphabet] : n \in 0..MaxPasswordLen }
    \cup { <<"a", "b", "c", "1", "2", "3", "4", "5">>,
           <<"P", "a", "s", "s", "1">>,
           <<"p", "a", "s", "s", "1", "2", "3", "4">>,
           <<"M", "y", "P", "a", "s", "s", "1", "2", "3">>,
           GoodPassword }

\* validatePassword(p) is called, once, and returns
ValidatePasswordCall ==
    /\ last = None
    /\ \E p \in Passwords :
          last' = [op |-> "validatePassword", input |-> p, result |-> ValidatePassword(p)]
    /\ UNCHANGED <<store, lockouts, config, now, nextSweep, authVars>>

InitPassword == InitRL /\ config = DEFAULT_CONFIG

NextPassword == ValidatePasswordCall

SpecPassword == InitPassword /\ [][NextPassword]_vars

\* the rules p fails: 1 length, 2 uppercase, 3 lowercase, 4 digit
FailedRules(p) ==
    {r \in 1..4 :
        \/ r = 1 /\ Len(p) < 8
        \/ r = 2 /\ \A k \in 1..Len(p) : p[k] \notin UpperCase
        \/ r = 3 /\ \A k \in 1..Len(p) : p[k] \notin LowerCase
        \/ r = 4 /\ \A k \in 1..Len(p) : p[k] \notin Digits}

RuleMessage(r) ==
    CASE r = 1 -> <<"Password must be at least 8 characters">>
      [] r = 2 -> <<"Password must contain at least one uppercase letter">>
      [] r = 3 -> <<"Password must contain at least one lowercase letter">>
      [] r = 4 -> <<"Password must contain at least one number">>

\* C23: validatePassword(p).valid is true iff p has at least 8 characters, an
\* uppercase letter, a lowercase letter and a digit; when invalid the message
\* is that of the first rule that fails in the order length, uppercase,
\* lowercase, digit; a result is returned for every p.
C23_ValidIffAllRules ==
    last.op = "validatePassword" =>
        /\ last.result.valid \in BOOLEAN
        /\ last.result.valid <=> FailedRules(last.input) = {}
        /\ ~last.result.valid =>
              \E r \in FailedRules(last.input) :
                  /\ \A q \in FailedRules(last.input) : r <= q
                  /\ last.result.message = RuleMessage(r)

\* C23 witness: "abc12345" was refused for want of an uppercase letter.
C23_Witness ==
    /\ last.op = "validatePassword"
    /\ last.input = <<"a", "b", "c", "1", "2", "3", "4", "5">>
    /\ ~last.result.valid
    /\ last.result.message = <<"Password must contain at least one uppercase letter">>

\* C23 witness, a short password failing every other rule too: the length
\* message is returned.
C23_WitnessShort ==
    /\ last.op = "validatePassword"
    /\ last.input = <<"-", "-">>
    /\ FailedRules(last.input) = {1, 2, 3, 4}
    /\ last.result.message = <<"Password must be at least 8 characters">>

\* C23 witness, a valid password of exactly 8 characters.
C23_WitnessValid ==
    /\ last.op = "validatePassword"
    /\ Len(last.input) = 8
    /\ last.result = [valid |-> TRUE]

C21_WitnessConfirmation ==
    /\ Rejected
    /\ last.op = "signUp"
    /\ last.err.code = "CONFIRMATION_SENT"
    /\ error = last.err

\* C21 witness, another operation: logout failed at the provider with a
\* network error.
C21_WitnessLogout ==
    /\ Rejected
    /\ last.op = "logout"
    /\ last.err.code = "NETWORK_ERROR"
    /\ error = last.err

\* C24: every operation sets loading = true and error = null before its
\* provider call and loading = false when it settles; hence loading is true
\* whenever an operation is in flight and false once none is.
C24_LoadingAroundEveryCall ==
    /\ [][/\ \A p \in pending' \ pending : loading' /\ error' = NULL
          /\ last'.op \in Operations => ~loading']_vars
    /\ [](/\ pending # {} => loading
          /\ (pending = {} /\ last.op \in Operations) => ~loading)

\* the operation touches the loading flag: all of them in the second
\* implementation, all but signInWithGoogle in the first
SetsLoading(op) == variant = "B" \/ op # "signInWithGoogle"

\* C24, amended: login, signUp, logout and resetPassword (and the second
\* implementation's signInWithGoogle) set loading = true and error = null
\* before their provider call and loading = false when they settle; the first
\* implementation's signInWithGoogle sets error = null and leaves loading as
\* it is; an operation that is alone in flight and sets loading sees loading
\* true while in flight and false when it has settled.
C24_LoadingAroundOwnCall ==
    /\ [][/\ \A p \in pending' \ pending :
                /\ error' = NULL
                /\ loading' = (IF SetsLoading(p.op) THEN TRUE ELSE loading)
          /\ last'.op \in Operations =>
                loading' = (IF SetsLoading(last'.op) THEN FALSE ELSE loading)]_vars
    /\ [](\A p \in pending :
              (solo.active /\ SetsLoading(p.op)) => (loading /\ error = NULL))
    /\ []((last.op \in Operations /\ last.solo /\ SetsLoading(last.op)) => ~loading)

\* C24 witness: a resetPassword that ran alone has just resolved; loading is
\* false and the error null.
C24_Witness ==
    /\ last.op = "resetPassword"
    /\ last.solo
    /\ ~last.rejected
    /\ ~InvalidInput("resetPassword", last.input)
    /\ ~loading
    /\ error = NULL

\* C24 witness, in flight: a logout is alone in flight with a user signed in;
\* loading is true.
C24_WitnessInFlight ==
    /\ pending = {[op |-> "logout", input |-> <<>>]}
    /\ solo.active
    /\ user # NULL
    /\ loading
    /\ error = NULL

\* C24 witness, the first implementation's signInWithGoogle: it is alone in
\* flight and loading is false.
C24_WitnessGoogle ==
    /\ variant = "A"
    /\ pending = {[op |-> "signInWithGoogle", input |-> <<>>]}
    /\ solo.active
    /\ ~loading

\* C24 witness, two operations: a login is still in flight after the other
\* operation settled, and loading is false.
C24_WitnessOverlap ==
    /\ \E p \in pending : p.op = "login"
    /\ Cardinality(pending) = 1
    /\ last.op = "signUp"
    /\ ~loading

----------------------------------------------------------------------------
(* The provider's effect cleaned up while continuations are pending *)

\* the mount effect run, cleaned up and run again, with logins and logouts
\* started while mounted and settling at any time
NextUnmount ==
    \/ Mount
    \/ Unmount
    \/ \E p \in pending : \E r \in GetSessionResponses : InitSettle(p, r)
    \/ \E p \in pending : \E r \in GetSessionResponses : InitSessionSettle(p, r)
    \/ \E p \in pending : \E u \in GetUserResponses : InitUserSettle(p, u)
    \/ \E p \in Calls("getUserProfile") : \E r \in ProfileResponses(p) : ProfileSettle(p, r)
    \/ \E s \in ProviderSessions \cup {NULL} : SessionEvent(s)
    \/ \E in \in SessionLoginInputs : mounted /\ LoginStart(in[1], in[2])
    \/ \E p \in Calls("login") : \E r \in LoginResponses(p) : LoginSettle(p, r)
    \/ mounted /\ LogoutStart
    \/ \E p \in Calls("logout") : \E r \in SignOutResponses : LogoutSettle(p, r)

SpecUnmount == InitMount /\ [][NextUnmount]_vars

\* the continuations of the mount effect that resume in the step: calls of
\* the effect's closures that leave the set of calls in flight
Resumed == {p \in pending \ pending' : "epoch" \in DOMAIN p}

\* the closure that made the call p has been cleaned up
Stale(p) == ~(mounted /\ epoch = p.epoch)

\* C25: while the provider is unmounted no step changes User, Session,
\* loading or error, whichever continuation resumes: the initial session
\* fetch, a session event, a profile fetch, a pending login or logout.
C25_NoMutationAfterUnmount ==
    [][(~mounted /\ ~mounted') => UNCHANGED <<user, session, loading, error>>]_vars

\* C25, amended: in the first implementation a continuation of the mount
\* effect (initial session fetch, profile fetch) that resumes after its effect
\* was cleaned up changes nothing of User, Session, loading and error, and an
\* unmounted provider of either implementation has no subscription, so no
\* session event reaches it; the operations and the second implementation's
\* initial fetch are not guarded.
C25_EffectContinuationsGuarded ==
    /\ [][\A p \in Resumed :
            (variant = "A" /\ Stale(p)) => UNCHANGED <<user, session, loading, error>>]_vars
    /\ [][(~mounted /\ ~mounted' /\ variant = "A" /\ last'.op \notin Operations)
            => UNCHANGED <<user, session, loading, error>>]_vars
    /\ [](~mounted => subs = {})

\* C25 witness: the first implementation's initial session fetch of the
\* first mount has resumed after the cleanup and a second mount, and loading
\* is still true: it set nothing.
C25_Witness ==
    /\ variant = "A"
    /\ last = [op |-> "init", epoch |-> 1, timedOut |-> FALSE]
    /\ epoch = 2
    /\ mounted
    /\ loading
    /\ user = NULL

\* C25 witness, a profile fetch: it resumed while the provider was unmounted;
\* the user is still the one mapped from the session.
C25_WitnessProfile ==
    /\ variant = "A"
    /\ ~mounted
    /\ last.op = "profile"
    /\ user # NULL
    /\ user.mappedBy = "session"

\* C25 witness, an operation: a login started while mounted has resolved
\* after the cleanup and set User and Session.
C25_WitnessLogin ==
    /\ ~mounted
    /\ last.op = "login"
    /\ ~last.rejected
    /\ user # NULL
    /\ user.mappedBy = "authService"
    /\ ~loading

----------------------------------------------------------------------------
(* Claims about the background profile fetch and the initial session fetch, *)
(* checked under SpecSession                                                *)

\* C26: when a background profile fetch comes back without a profile (no
\* row, or the read failed), the step changes none of User, Session, error
\* and loading, so a user mapped from the session payload stays that user;
\* no operation is made to reject and no call in flight is dropped.
C26_FailedProfileFetchChangesNothing ==
    [][(last'.op = "profile" /\ ~last'.found) =>
          /\ UNCHANGED <<user, session, error, loading>>
          /\ pending' \subseteq pending
          /\ Cardinality(pending \ pending') = 1
          /\ \A p \in pending \ pending' : p.op = "getUserProfile"]_vars

\* C26 witness: the profile fetch of the current sign-in has come back empty;
\* User is the user mapped from the session, the Session is set, the error
\* null.
C26_Witness ==
    /\ last.op = "profile"
    /\ ~last.found
    /\ mounted
    /\ last.epoch = epoch
    /\ user # NULL
    /\ user.mappedBy = "session"
    /\ session # NULL
    /\ session.user = user
    /\ error = NULL
    /\ pending = {}

\* C27: in every state of the mounted provider User is null iff Session is
\* null, and when both are set User.id is Session.user.id; a profile fetch
\* of an earlier sign-in that resolves after a sign-out does not install its
\* profile as the User.
C27_UserIffSession ==
    mounted =>
        /\ (user = NULL) <=> (session = NULL)
        /\ (user # NULL /\ session # NULL) => user.id = session.user.id

\* C28: once a session event carrying a user, or a successful login, has set
\* User and Session, the completion of the initial session fetch (no
\* session, an error, or the timeout) does not reset them to null.
C28_InitKeepsSignedInUser ==
    [][(last'.op = "init" /\ user # NULL /\ session # NULL)
          => ~(user' = NULL /\ session' = NULL)]_vars

----------------------------------------------------------------------------
(* The records of the throttle store *)

\* the record is one the limiter's own steps can have built
WellFormed(e, cfg) ==
    /\ 1 <= e.attempts
    /\ e.attempts <= cfg.maxAttempts + 1
    /\ HasLock(e) <=> e.attempts > cfg.maxAttempts

\* recordAttempt(id) runs on an entry that its own isLocked call deletes
DeletedInCall(st, id, t) == Has(st, id) /\ ~Has(IsLockedStore(st, id, t), id)

\* C29: under recordAttempt, isLocked, reset, resetAll, the sweep and the
\* clock, every stored record has 1 <= attempts <= maxAttempts + 1 and a
\* lockout expiry exactly when attempts > maxAttempts; a recordAttempt whose
\* entry was deleted by its isLocked call stores nothing made from that
\* entry: the identifier is left without a record or with a fresh one.
C29_StoredRecordsWellFormed ==
    /\ [](\A id \in DOMAIN store : WellFormed(store[id], config))
    /\ [][(last'.op = "recordAttempt" /\ DeletedInCall(store, last'.id, now))
             => store' \in { Delete(store, last'.id),
                             Put(Delete(store, last'.id), last'.id, FreshEntry(now)) }]_vars

\* a recordAttempt has just locked a stored record at maxAttempts + 1
C29_Witness ==
    /\ last.op = "recordAttempt"
    /\ Has(store, last.id)
    /\ HasLock(store[last.id])
    /\ store[last.id].attempts = config.maxAttempts + 1

\* a recordAttempt has counted and locked the entry its isLocked call had
\* deleted: it answers "locked" and the store holds no record of it
C29_WitnessDeleted ==
    /\ last.op = "recordAttempt"
    /\ ~last.allowed
    /\ last.remaining = config.lockoutMs
    /\ ~Has(store, last.id)

----------------------------------------------------------------------------
(* completeOnboarding calls racing on one users table that answers every
   request: reads see the table, a write fails only as a duplicate key *)

\* the answers of a store that is up: done, or the insert of an id that has a
\* row refused (users.id is the primary key)
AnsweredWrites(pr, p) ==
    { r \in WriteResponses(pr, p) :
        r.kind = "ok" \/ (r.kind = "error" /\ r.message = "duplicate key") }

NextOnboardingRace ==
    \/ \E id \in UserIds : \E data \in OnboardingInputs : CompleteStart(id, data)
    \/ \E p \in Calls("completeOnboarding") : CompleteRead(p, TRUE)
    \/ \E p \in Calls("completeOnboarding") :
          \E r \in AnsweredWrites(profiles, p) : CompleteWrite(p, r)

SpecOnboardingRace == InitOnboarding /\ [][NextOnboardingRace]_vars

\* the row holds what the input submitted, and the flag
RowOf(row, data) ==
    /\ row.display_name = data.displayName
    /\ row.bio = data.bio
    /\ row.school = data.school
    /\ row.program = data.program
    /\ row.avatar_url = data.profilePicture
    /\ row.onboarding_completed

\* C30: for every interleaving of completeOnboarding calls for one user id
\* (at most MaxInFlight of them in flight) over a store that answers, each
\* call that returns leaves a call for that id that returned success=true
\* (itself or an earlier one), and from the first success on the single row of
\* that id has onboarding_completed = true and holds the fields of the input
\* of the call that succeeded last.
C30_RacingCallsOneCompletedRow ==
    /\ [](\A id \in DOMAIN onboarded :
            HasRow(profiles, id) /\ RowOf(profiles[id], onboarded[id]))
    /\ [][last'.op = "completeOnboarding"
             => /\ last'.id \in DOMAIN onboarded'
                /\ onboarded'[last'.id] \in OnboardingInputs
                /\ (~last'.success => last'.id \in DOMAIN onboarded)]_vars

\* both calls read "no profile"; one inserted, and the other's insert has
\* just been refused: it returns success=false and the row is the first's
C30_Witness ==
    /\ last.op = "completeOnboarding"
    /\ ~last.success
    /\ last.path = "insert"
    /\ last.id \in DOMAIN onboarded
    /\ onboarded[last.id] # last.data
    /\ RowOf(profiles[last.id], onboarded[last.id])
    /\ \A p \in pending : p.id # last.id

\* the second call read the first's row and has just overwritten it
C30_WitnessBothSucceed ==
    /\ last.op = "completeOnboarding"
    /\ last.success
    /\ last.path = "update"
    /\ HasRow(last.before, last.id)
    /\ last.before[last.id].onboarding_completed
    /\ ~RowOf(last.before[last.id], last.data)
    /\ RowOf(profiles[last.id], last.data)

====
